---- MODULE Spec2Model ----
(***************************************************************************)
(* Argument validation and call behaviour of the rocBLAS routines that the *)
(* client tests of this repository exercise (trsm, trsm_batched_ex,        *)
(* trmm_outofplace_batched, tpsv_strided_batched, spmv) and of             *)
(* rocblas_hbmv_impl.  A state holds the last call made: who made it, the  *)
(* routine, its arguments, the status it returned, the status the calling  *)
(* test asserts, the internal steps the call went through, the buffers it  *)
(* wrote and, for testing_trsm, the contents of the test's matrices.       *)
(***************************************************************************)
EXTENDS Integers, Sequences, FiniteSets, TLC

VARIABLES test, routine, args, status, expected, steps, written, data

vars == <<test, routine, args, status, expected, steps, written, data>>

(***************************************************************************)
(* Bounds of the argument space of a generic call.                         *)
(***************************************************************************)
MaxDim == 1
MaxBatch == 1

Dims == -1 .. MaxDim
BatchCounts == -1 .. MaxBatch

(***************************************************************************)
(* Enumerators passed by a generic call: the validators only tell a legal  *)
(* enumerator from an illegal one (and left from right), so each set holds *)
(* the legal values needed for that and one illegal value.  "both" and     *)
(* "full" are the illegal values the bad-argument tests pass               *)
(* (rocblas_side_both, also cast to the other enum types, and              *)
(* rocblas_fill_full).                                                     *)
(***************************************************************************)
Sides == {"left", "right", "both"}
Fills == {"upper", "full"}
Operations == {"none", "both"}
Diagonals == {"non_unit", "both"}
PointerModes == {"host", "device"}
Pointers == {"null", "ptr"}

legal_side(s) == s \in {"left", "right"}
legal_fill(u) == u \in {"upper", "lower"}
legal_operation(t) == t \in {"none", "transpose", "conjugate_transpose"}
legal_diagonal(d) == d \in {"non_unit", "unit"}

(***************************************************************************)
(* The arguments of a call, one record shape for every routine.  A field a *)
(* routine does not have keeps the value it has here.                      *)
(***************************************************************************)
NoArgs ==
    [handle |-> "null", mode |-> "host", query |-> FALSE, logging |-> FALSE,
     check_numerics |-> FALSE,
     side |-> "na", uplo |-> "na", transA |-> "na", diag |-> "na",
     M |-> 0, N |-> 0, k |-> 0, lda |-> 0, ldb |-> 0, ldc |-> 0,
     incx |-> 0, incy |-> 0, batch_count |-> 1,
     alpha |-> "null", alpha_val |-> 0, beta |-> "null", beta_val |-> 0,
     A |-> "null", B |-> "null", C |-> "null", x |-> "null", y |-> "null"]

\* K: the order of the triangular operand.
K_of(side, M, N) == IF side = "left" THEN M ELSE N

Result(s, st, w) == [status |-> s, steps |-> st, written |-> w]

(***************************************************************************)
(* Argument validators.  Each returns the status of the first check that   *)
(* fails, "success" for a quick return, or "continue" when the call is to  *)
(* proceed.  The null-handle check is made by the entry point before them. *)
(***************************************************************************)

\* Checks 2-7 of the validator for trsm (batch_count = 1).
rocblas_trsm_arg_check(a) ==
    IF ~(legal_side(a.side) /\ legal_fill(a.uplo)
         /\ legal_operation(a.transA) /\ legal_diagonal(a.diag))
    THEN "invalid_value"
    ELSE IF a.M < 0 \/ a.N < 0 \/ a.lda < K_of(a.side, a.M, a.N) \/ a.ldb < a.M
    THEN "invalid_size"
    ELSE IF a.M = 0 \/ a.N = 0
    THEN "success"
    ELSE IF a.alpha = "null" \/ a.B = "null"
    THEN "invalid_pointer"
    ELSE IF a.mode = "host" /\ a.alpha_val # 0 /\ a.A = "null"
    THEN "invalid_pointer"
    ELSE "continue"

\* trsm_batched_ex: as trsm, with batch_count; a zero batch_count is a
\* no-op whatever the dimensions are.
rocblas_trsm_batched_ex_arg_check(a) ==
    IF ~(legal_side(a.side) /\ legal_fill(a.uplo)
         /\ legal_operation(a.transA) /\ legal_diagonal(a.diag))
    THEN "invalid_value"
    ELSE IF a.batch_count = 0
    THEN "success"
    ELSE IF a.M < 0 \/ a.N < 0 \/ a.lda < K_of(a.side, a.M, a.N) \/ a.ldb < a.M
            \/ a.batch_count < 0
    THEN "invalid_size"
    ELSE IF a.M = 0 \/ a.N = 0
    THEN "success"
    ELSE IF a.alpha = "null" \/ a.B = "null"
    THEN "invalid_pointer"
    ELSE IF a.mode = "host" /\ a.alpha_val # 0 /\ a.A = "null"
    THEN "invalid_pointer"
    ELSE "continue"

\* trmm_outofplace_batched: the result goes to C (leading dimension ldc).
rocblas_trmm_outofplace_batched_arg_check(a) ==
    IF ~(legal_side(a.side) /\ legal_fill(a.uplo)
         /\ legal_operation(a.transA) /\ legal_diagonal(a.diag))
    THEN "invalid_value"
    ELSE IF a.M < 0 \/ a.N < 0 \/ a.lda < K_of(a.side, a.M, a.N) \/ a.ldb < a.M
            \/ a.ldc < a.M \/ a.batch_count < 0
    THEN "invalid_size"
    ELSE IF a.M = 0 \/ a.N = 0 \/ a.batch_count = 0
    THEN "success"
    ELSE IF a.alpha = "null" \/ a.B = "null" \/ a.C = "null"
    THEN "invalid_pointer"
    ELSE IF a.mode = "host" /\ a.alpha_val # 0 /\ a.A = "null"
    THEN "invalid_pointer"
    ELSE "continue"

\* tpsv_strided_batched: packed triangular solve of a vector x, no scalar.
rocblas_tpsv_strided_batched_arg_check(a) ==
    IF ~(legal_fill(a.uplo) /\ legal_operation(a.transA) /\ legal_diagonal(a.diag))
    THEN "invalid_value"
    ELSE IF a.N < 0 \/ a.incx = 0 \/ a.batch_count < 0
    THEN "invalid_size"
    ELSE IF a.N = 0 \/ a.batch_count = 0
    THEN "success"
    ELSE IF a.A = "null" \/ a.x = "null"
    THEN "invalid_pointer"
    ELSE "continue"

\* spmv: y = alpha*A*x + beta*y on a packed symmetric A.
rocblas_spmv_arg_check(a) ==
    IF ~legal_fill(a.uplo)
    THEN "invalid_value"
    ELSE IF a.N < 0 \/ a.incx = 0 \/ a.incy = 0
    THEN "invalid_size"
    ELSE IF a.N = 0
    THEN "success"
    ELSE IF a.alpha = "null" \/ a.beta = "null"
    THEN "invalid_pointer"
    ELSE IF a.mode = "host" /\ a.alpha_val = 0 /\ a.beta_val = 1
    THEN "success"
    ELSE IF a.mode = "host" /\ a.y = "null"
    THEN "invalid_pointer"
    ELSE IF a.mode = "host" /\ a.alpha_val # 0 /\ (a.A = "null" \/ a.x = "null")
    THEN "invalid_pointer"
    ELSE "continue"

\* hbmv: y = alpha*A*x + beta*y on a Hermitian band A with k super-diagonals.
rocblas_hbmv_arg_check(a) ==
    IF ~legal_fill(a.uplo)
    THEN "invalid_value"
    ELSE IF a.N < 0 \/ a.k < 0 \/ a.lda <= a.k \/ a.incx = 0 \/ a.incy = 0
    THEN "invalid_size"
    ELSE IF a.N = 0
    THEN "success"
    ELSE IF a.alpha = "null" \/ a.beta = "null"
    THEN "invalid_pointer"
    ELSE IF a.mode = "host" /\ a.alpha_val = 0 /\ a.beta_val = 1
    THEN "success"
    ELSE IF a.mode = "host" /\ a.y = "null"
    THEN "invalid_pointer"
    ELSE IF a.mode = "host" /\ a.alpha_val # 0 /\ (a.A = "null" \/ a.x = "null")
    THEN "invalid_pointer"
    ELSE "continue"

(***************************************************************************)
(* Entry points.  Each returns Result(status, steps, written): the status, *)
(* the internal steps the call went through and the buffers it wrote.      *)
(***************************************************************************)

\* An entry point of the library whose validator is check and whose kernel
\* writes the buffers out: the handle check, the validator, then the size
\* report when the handle is in a size query, the kernel otherwise.
Entry(a, check, out) ==
    IF a.handle = "null"
    THEN Result("invalid_handle", <<>>, {})
    ELSE IF check # "continue"
    THEN Result(check, <<"arg_check">>, {})
    ELSE IF a.query
    THEN Result("size_increased", <<"arg_check", "size_query">>, {})
    ELSE Result("success", <<"arg_check", "kernel">>, out)

rocblas_trsm(a) == Entry(a, rocblas_trsm_arg_check(a), {"B"})

rocblas_trsm_batched_ex(a) == Entry(a, rocblas_trsm_batched_ex_arg_check(a), {"B"})

rocblas_trmm_outofplace_batched(a) ==
    Entry(a, rocblas_trmm_outofplace_batched_arg_check(a), {"C"})

rocblas_tpsv_strided_batched(a) ==
    Entry(a, rocblas_tpsv_strided_batched_arg_check(a), {"x"})

rocblas_spmv(a) == Entry(a, rocblas_spmv_arg_check(a), {"y"})

(***************************************************************************)
(* rocblas_hbmv_impl.  e holds what the functions it calls return: the     *)
(* input and output numerics checks and the kernel launcher.               *)
(***************************************************************************)
LogSteps(a) == IF a.logging THEN <<"log">> ELSE <<>>

\* rocblas_hbmv_impl with the argument check moved before the handle check.
rocblas_hbmv_impl_args_first(a, e) ==
    LET arg_status == rocblas_hbmv_arg_check(a)
    IN  IF arg_status # "continue"
        THEN Result(arg_status, <<"arg_check">>, {})
        ELSE IF a.handle = "null"
        THEN Result("invalid_handle", <<"arg_check">>, {})
        ELSE Result(e.launcher, <<"arg_check", "launcher">>, {"y"})

\* rocblas_hbmv_impl dropping the status of the argument check.
rocblas_hbmv_impl_ignore_arg_status(a, e) ==
    IF a.handle = "null"
    THEN Result("invalid_handle", <<>>, {})
    ELSE IF a.query
    THEN Result("size_unchanged", <<"size_query">>, {})
    ELSE Result(e.launcher, LogSteps(a) \o <<"arg_check", "launcher">>, {"y"})

\* rocblas_hbmv_impl launching the kernel before it looks at the status of
\* the argument check.
rocblas_hbmv_impl_launch_before_check(a, e) ==
    IF a.handle = "null"
    THEN Result("invalid_handle", <<>>, {})
    ELSE IF a.query
    THEN Result("size_unchanged", <<"size_query">>, {})
    ELSE LET arg_status == rocblas_hbmv_arg_check(a)
             s3 == LogSteps(a) \o <<"arg_check", "launcher">>
         IN  IF arg_status # "continue"
             THEN Result(arg_status, s3, {"y"})
             ELSE Result(e.launcher, s3, {"y"})

\* rocblas_hbmv_impl without the early return of a size query.
rocblas_hbmv_impl_query_computes(a, e) ==
    IF a.handle = "null"
    THEN Result("invalid_handle", <<>>, {})
    ELSE LET arg_status == rocblas_hbmv_arg_check(a)
             s1 == LogSteps(a) \o <<"arg_check">>
             s3 == s1 \o <<"launcher">>
         IN  IF arg_status # "continue"
             THEN Result(arg_status, s1, {})
             ELSE Result(e.launcher, s3, {"y"})

\* rocblas_hbmv_impl returning whatever the argument check returns.
rocblas_hbmv_impl_returns_continue(a, e) ==
    IF a.handle = "null"
    THEN Result("invalid_handle", <<>>, {})
    ELSE IF a.query
    THEN Result("size_unchanged", <<"size_query">>, {})
    ELSE Result(rocblas_hbmv_arg_check(a), LogSteps(a) \o <<"arg_check">>, {})

\* rocblas_hbmv_impl launching before the check of the input numerics.
rocblas_hbmv_impl_launch_before_numerics(a, e) ==
    IF a.handle = "null"
    THEN Result("invalid_handle", <<>>, {})
    ELSE IF a.query
    THEN Result("size_unchanged", <<"size_query">>, {})
    ELSE LET arg_status == rocblas_hbmv_arg_check(a)
             s1 == LogSteps(a) \o <<"arg_check">>
             s2 == s1 \o <<"launcher">>
             s3 == IF a.check_numerics THEN s2 \o <<"check_numerics_in">> ELSE s2
             s4 == IF a.check_numerics THEN s3 \o <<"check_numerics_out">> ELSE s3
         IN  IF arg_status # "continue"
             THEN Result(arg_status, s1, {})
             ELSE IF e.launcher # "success"
             THEN Result(e.launcher, s2, {})
             ELSE IF a.check_numerics /\ e.numerics_in # "success"
             THEN Result(e.numerics_in, s3, {"y"})
             ELSE IF a.check_numerics /\ e.numerics_out # "success"
             THEN Result(e.numerics_out, s4, {"y"})
             ELSE Result(e.launcher, s4, {"y"})

\* rocblas_hbmv_impl answering a size query after logging and the argument
\* check.
rocblas_hbmv_impl_query_after_check(a, e) ==
    IF a.handle = "null"
    THEN Result("invalid_handle", <<>>, {})
    ELSE LET arg_status == rocblas_hbmv_arg_check(a)
             s1 == LogSteps(a) \o <<"arg_check">>
             s3 == s1 \o <<"launcher">>
         IN  IF arg_status # "continue"
             THEN Result(arg_status, s1, {})
             ELSE IF a.query
             THEN Result("size_unchanged", s1 \o <<"size_query">>, {})
             ELSE Result(e.launcher, s3, IF e.launcher = "success" THEN {"y"} ELSE {})

rocblas_hbmv_impl(a, e) ==
    IF a.handle = "null"
    THEN Result("invalid_handle", <<>>, {})
    ELSE IF a.query
    THEN Result("size_unchanged", <<"size_query">>, {})
    ELSE LET arg_status == rocblas_hbmv_arg_check(a)
             s1 == LogSteps(a) \o <<"arg_check">>
             s2 == IF a.check_numerics THEN s1 \o <<"check_numerics_in">> ELSE s1
             s3 == s2 \o <<"launcher">>
             s4 == IF a.check_numerics THEN s3 \o <<"check_numerics_out">> ELSE s3
         IN  IF arg_status # "continue"
             THEN Result(arg_status, s1, {})
             ELSE IF a.check_numerics /\ e.numerics_in # "success"
             THEN Result(e.numerics_in, s2, {})
             ELSE IF e.launcher # "success"
             THEN Result(e.launcher, s3, {})
             ELSE IF a.check_numerics /\ e.numerics_out # "success"
             THEN Result(e.numerics_out, s4, {"y"})
             ELSE Result(e.launcher, s4, {"y"})

(***************************************************************************)
(* The C entry point of hbmv (IMPL): rocblas_hbmv_impl in a try block.     *)
(* thrown tells what the implementation throws and during which of its     *)
(* steps: kind "none" when it throws nothing.                              *)
(***************************************************************************)
NoThrow == [kind |-> "none", at |-> 0]

Exceptions == {"bad_alloc", "other"}

\* The status of the exception caught: a memory error for std::bad_alloc,
\* an internal error for anything else.
exception_to_rocblas_status(kind) ==
    IF kind = "bad_alloc" THEN "memory_error" ELSE "internal_error"

\* What rocblas_hbmv_impl has done when it throws during step thrown.at.
Thrown(a, e, thrown) ==
    LET res == rocblas_hbmv_impl(a, e)
    IN  [steps |-> SubSeq(res.steps, 1, thrown.at),
         written |-> IF \E i \in 1 .. thrown.at - 1 : res.steps[i] = "launcher"
                     THEN {"y"} ELSE {}]

\* An entry point without the catch: the exception leaves the library.
rocblas_hbmv_no_catch(a, e, thrown) ==
    IF thrown.kind = "none"
    THEN rocblas_hbmv_impl(a, e)
    ELSE Result("exception", Thrown(a, e, thrown).steps, Thrown(a, e, thrown).written)

rocblas_hbmv(a, e, thrown) ==
    IF thrown.kind = "none"
    THEN rocblas_hbmv_impl(a, e)
    ELSE Result(exception_to_rocblas_status(thrown.kind),
                Thrown(a, e, thrown).steps, Thrown(a, e, thrown).written)

(***************************************************************************)
(* The argument space of a generic call.                                   *)
(***************************************************************************)

\* A handle and its pointer mode (a null handle has none).
Handles == {<<"null", "host">>, <<"valid", "host">>, <<"valid", "device">>}

\* A scalar argument: null, or a pointer to one of Vals.
Scalars(Vals) == {<<"null", 0>>} \cup {<<"ptr", v>> : v \in Vals}

\* Leading dimensions tried for an operand of n rows: one too small, and n.
Lds(n) == {n - 1, n}

Increments == {-1, 0, 1}

TrsmArgs ==
    { [NoArgs EXCEPT !.handle = h[1], !.mode = h[2],
                     !.side = sd, !.uplo = ul, !.transA = tr, !.diag = dg,
                     !.M = m, !.N = n, !.lda = K_of(sd, m, n) - sa, !.ldb = m - sb,
                     !.alpha = al[1], !.alpha_val = al[2], !.A = pa, !.B = pb] :
        h \in Handles, sd \in Sides, ul \in Fills, tr \in Operations, dg \in Diagonals,
        m \in Dims, n \in Dims, sa \in {0, 1}, sb \in {0, 1},
        al \in Scalars({0, 1}), pa \in Pointers, pb \in Pointers }

TrsmBatchedExArgs ==
    { [a EXCEPT !.batch_count = bc] : a \in TrsmArgs, bc \in BatchCounts }

TrmmOutofplaceBatchedArgs(a) ==
    { [a EXCEPT !.ldc = a.M - sc, !.C = pc] : sc \in {0, 1}, pc \in Pointers }

TpsvStridedBatchedArgs ==
    { [NoArgs EXCEPT !.handle = h[1], !.mode = h[2],
                     !.uplo = ul, !.transA = tr, !.diag = dg,
                     !.N = n, !.incx = ix, !.batch_count = bc, !.A = pa, !.x = px] :
        h \in Handles, ul \in Fills, tr \in Operations, dg \in Diagonals,
        n \in Dims, ix \in Increments, bc \in BatchCounts,
        pa \in Pointers, px \in Pointers }

SpmvArgs ==
    { [NoArgs EXCEPT !.handle = h[1], !.mode = h[2], !.uplo = ul,
                     !.N = n, !.incx = ix, !.incy = iy,
                     !.alpha = al[1], !.alpha_val = al[2],
                     !.beta = be[1], !.beta_val = be[2],
                     !.A = pa, !.x = px, !.y = py] :
        h \in Handles, ul \in Fills, n \in Dims, ix \in Increments, iy \in Increments,
        al \in Scalars({0, 1}), be \in Scalars({1, 2}),
        pa \in Pointers, px \in Pointers, py \in Pointers }

\* hbmv: the handle also carries the size-query, logging and check_numerics
\* modes that rocblas_hbmv_impl reads.
HbmvArgs(a) ==
    { [a EXCEPT !.k = kk, !.lda = kk + 1 - sa, !.query = q, !.logging = lg,
                !.check_numerics = cn] :
        kk \in Dims, sa \in {0, 1},
        q \in IF a.handle = "null" THEN {FALSE} ELSE BOOLEAN,
        lg \in IF a.handle = "null" THEN {FALSE} ELSE BOOLEAN,
        cn \in IF a.handle = "null" THEN {FALSE} ELSE BOOLEAN }

\* What the functions rocblas_hbmv_impl calls may return.
HbmvEnv ==
    [numerics_in : {"success", "check_numerics_fail"},
     launcher : {"success", "internal_error"},
     numerics_out : {"success", "check_numerics_fail"}]

NoEnv == [numerics_in |-> "success", launcher |-> "success", numerics_out |-> "success"]

Routines ==
    {"trsm", "trsm_batched_ex", "trmm_outofplace_batched", "tpsv_strided_batched",
     "spmv", "hbmv"}

\* The arguments of routine r: those of base b of BaseOf(r), extended.
BaseOf(r) ==
    CASE r = "trsm" -> TrsmArgs
      [] r = "trsm_batched_ex" -> TrsmBatchedExArgs
      [] r = "trmm_outofplace_batched" -> TrsmBatchedExArgs
      [] r = "tpsv_strided_batched" -> TpsvStridedBatchedArgs
      [] r = "spmv" -> SpmvArgs
      [] r = "hbmv" -> SpmvArgs

ArgsOf(r, b) ==
    CASE r = "trmm_outofplace_batched" -> TrmmOutofplaceBatchedArgs(b)
      [] r = "hbmv" -> HbmvArgs(b)
      [] OTHER -> {b}

\* The call of routine r with arguments a; e matters to hbmv alone.
Call(r, a, e) ==
    CASE r = "trsm" -> rocblas_trsm(a)
      [] r = "trsm_batched_ex" -> rocblas_trsm_batched_ex(a)
      [] r = "trmm_outofplace_batched" -> rocblas_trmm_outofplace_batched(a)
      [] r = "tpsv_strided_batched" -> rocblas_tpsv_strided_batched(a)
      [] r = "spmv" -> rocblas_spmv(a)
      [] r = "hbmv" -> rocblas_hbmv(a, e, NoThrow)

\* The validator of routine r.
Validator(r, a) ==
    CASE r = "trsm" -> rocblas_trsm_arg_check(a)
      [] r = "trsm_batched_ex" -> rocblas_trsm_batched_ex_arg_check(a)
      [] r = "trmm_outofplace_batched" -> rocblas_trmm_outofplace_batched_arg_check(a)
      [] r = "tpsv_strided_batched" -> rocblas_tpsv_strided_batched_arg_check(a)
      [] r = "spmv" -> rocblas_spmv_arg_check(a)
      [] r = "hbmv" -> rocblas_hbmv_arg_check(a)

(***************************************************************************)
(* The calls the client tests make, each with the status the test asserts. *)
(* A test's list of calls is a sequence of [a |-> arguments, x |-> status  *)
(* asserted].                                                              *)
(***************************************************************************)
TrsmBadArgM == 100
TrmmBadArgM == 100
TrmmBadArgBatchCount == 2
TpsvBadArgN == 100
TpsvBadArgBatchCount == 3
SpmvBadArgN == 100

Expect(a, x) == [a |-> a, x |-> x]

\* testing_trsm_bad_arg, one pass of its loop over the pointer modes: the
\* arguments of a good call, then the bad calls in the order of the test.
testing_trsm_bad_arg_ok(pointer_mode) ==
    [NoArgs EXCEPT !.handle = "valid", !.mode = pointer_mode,
                   !.side = "left", !.uplo = "upper",
                   !.transA = "none", !.diag = "non_unit",
                   !.M = TrsmBadArgM, !.N = TrsmBadArgM,
                   !.lda = TrsmBadArgM, !.ldb = TrsmBadArgM,
                   !.alpha = "ptr", !.alpha_val = 1,
                   !.A = "ptr", !.B = "ptr"]

testing_trsm_bad_arg_enumerators(ok) ==
    <<Expect([ok EXCEPT !.side = "both"], "invalid_value"),
      Expect([ok EXCEPT !.uplo = "both"], "invalid_value"),
      Expect([ok EXCEPT !.transA = "both"], "invalid_value"),
      Expect([ok EXCEPT !.diag = "both"], "invalid_value")>>

testing_trsm_bad_arg_sizes(ok) ==
    <<Expect([ok EXCEPT !.M = -1], "invalid_size"),
      Expect([ok EXCEPT !.N = -1], "invalid_size"),
      Expect([ok EXCEPT !.ldb = ok.M - 1], "invalid_size"),
      Expect([ok EXCEPT !.side = "left", !.lda = ok.M - 1], "invalid_size"),
      Expect([ok EXCEPT !.side = "right", !.lda = ok.N - 1], "invalid_size")>>

testing_trsm_bad_arg_handle(ok) ==
    <<Expect([ok EXCEPT !.handle = "null", !.mode = "host"], "invalid_handle")>>

\* The pointer calls of the test asserting success for a null B.
testing_trsm_bad_arg_pointers_null_B_ok(ok) ==
    <<Expect([ok EXCEPT !.alpha = "null", !.alpha_val = 0], "invalid_pointer"),
      Expect([ok EXCEPT !.B = "null"], "success")>>

\* The pointer calls of the test with the null-A call made in both pointer
\* modes.
testing_trsm_bad_arg_pointers_null_A_any_mode(ok) ==
    <<Expect([ok EXCEPT !.alpha = "null", !.alpha_val = 0], "invalid_pointer"),
      Expect([ok EXCEPT !.A = "null"], "invalid_pointer"),
      Expect([ok EXCEPT !.B = "null"], "invalid_pointer")>>

testing_trsm_bad_arg_pointers(ok) ==
    <<Expect([ok EXCEPT !.alpha = "null", !.alpha_val = 0], "invalid_pointer")>>
    \o (IF ok.mode = "host"
        THEN <<Expect([ok EXCEPT !.A = "null"], "invalid_pointer")>>
        ELSE <<>>)
    \o <<Expect([ok EXCEPT !.B = "null"], "invalid_pointer")>>

\* The zero-alpha call of the test asserting invalid_pointer for a null A.
testing_trsm_bad_arg_zero_alpha_rejected(ok) ==
    <<Expect([ok EXCEPT !.alpha_val = 0, !.A = "null"], "invalid_pointer")>>

testing_trsm_bad_arg_zero_alpha(ok) ==
    <<Expect([ok EXCEPT !.alpha_val = 0, !.A = "null"], "success")>>

testing_trsm_bad_arg_quick_return(ok) ==
    LET allnull == [ok EXCEPT !.alpha = "null", !.alpha_val = 0,
                              !.A = "null", !.B = "null"]
    IN  <<Expect([allnull EXCEPT !.M = 0], "success"),
          Expect([allnull EXCEPT !.N = 0], "success")>>

testing_trsm_bad_arg_calls(pointer_mode) ==
    LET ok == testing_trsm_bad_arg_ok(pointer_mode)
    IN  testing_trsm_bad_arg_enumerators(ok)
        \o testing_trsm_bad_arg_sizes(ok)
        \o testing_trsm_bad_arg_handle(ok)
        \o testing_trsm_bad_arg_pointers(ok)
        \o testing_trsm_bad_arg_zero_alpha(ok)
        \o testing_trsm_bad_arg_quick_return(ok)

\* testing_trsm, its early return on an invalid size.
testing_trsm_invalid_size(M, N, lda, ldb, side) ==
    M < 0 \/ N < 0 \/ lda < K_of(side, M, N) \/ ldb < M

testing_trsm_early_call(side, uplo, transA, diag, M, N, lda, ldb) ==
    Expect([NoArgs EXCEPT !.handle = "valid", !.mode = "host",
                          !.side = side, !.uplo = uplo,
                          !.transA = transA, !.diag = diag,
                          !.M = M, !.N = N, !.lda = lda, !.ldb = ldb],
           "invalid_size")

\* testing_trsm_batched_ex, its early return.
testing_trsm_batched_ex_early(M, N, lda, ldb, side, batch_count) ==
    M < 0 \/ N < 0 \/ lda < K_of(side, M, N) \/ ldb < M \/ batch_count <= 0

testing_trsm_batched_ex_early_call(side, uplo, transA, diag, M, N, lda, ldb, batch_count, alpha_h) ==
    Expect([NoArgs EXCEPT !.handle = "valid", !.mode = "host",
                          !.side = side, !.uplo = uplo,
                          !.transA = transA, !.diag = diag,
                          !.M = M, !.N = N, !.lda = lda, !.ldb = ldb,
                          !.batch_count = batch_count,
                          !.alpha = "ptr", !.alpha_val = alpha_h,
                          !.A = "ptr", !.B = "ptr"],
           IF batch_count = 0 THEN "success" ELSE "invalid_size")

\* testing_trmm_outofplace_batched_bad_arg (the handle is in its default,
\* host, pointer mode).
testing_trmm_outofplace_batched_bad_arg_calls ==
    LET ok == [NoArgs EXCEPT !.handle = "valid", !.mode = "host",
                             !.side = "left", !.uplo = "upper",
                             !.transA = "none", !.diag = "non_unit",
                             !.M = TrmmBadArgM, !.N = TrmmBadArgM,
                             !.lda = TrmmBadArgM, !.ldb = TrmmBadArgM,
                             !.ldc = TrmmBadArgM,
                             !.batch_count = TrmmBadArgBatchCount,
                             !.alpha = "ptr", !.alpha_val = 1,
                             !.A = "ptr", !.B = "ptr", !.C = "ptr"]
        allnull == [ok EXCEPT !.alpha = "null", !.alpha_val = 0,
                              !.A = "null", !.B = "null", !.C = "null"]
    IN  <<Expect([ok EXCEPT !.A = "null"], "invalid_pointer"),
          Expect([ok EXCEPT !.B = "null"], "invalid_pointer"),
          Expect([ok EXCEPT !.C = "null"], "invalid_pointer"),
          Expect([ok EXCEPT !.alpha = "null", !.alpha_val = 0], "invalid_pointer"),
          Expect([ok EXCEPT !.handle = "null"], "invalid_handle"),
          Expect([allnull EXCEPT !.batch_count = 0], "success"),
          Expect([allnull EXCEPT !.M = 0], "success"),
          Expect([allnull EXCEPT !.N = 0], "success")>>

\* testing_trmm_outofplace_batched, its early return.
\* The size test of testing_trmm_outofplace_batched with ldb <= M for ldb < M.
testing_trmm_outofplace_batched_invalid_size_ldb(M, N, lda, ldb, ldc, side, batch_count) ==
    M < 0 \/ N < 0 \/ lda < K_of(side, M, N) \/ ldb <= M \/ ldc < M \/ batch_count < 0

testing_trmm_outofplace_batched_invalid_size(M, N, lda, ldb, ldc, side, batch_count) ==
    M < 0 \/ N < 0 \/ lda < K_of(side, M, N) \/ ldb < M \/ ldc < M \/ batch_count < 0

testing_trmm_outofplace_batched_early(M, N, lda, ldb, ldc, side, batch_count) ==
    \/ M = 0 \/ N = 0 \/ batch_count = 0
    \/ testing_trmm_outofplace_batched_invalid_size(M, N, lda, ldb, ldc, side, batch_count)

testing_trmm_outofplace_batched_early_call(side, uplo, transA, diag, M, N, lda, ldb, ldc, batch_count) ==
    Expect([NoArgs EXCEPT !.handle = "valid", !.mode = "host",
                          !.side = side, !.uplo = uplo,
                          !.transA = transA, !.diag = diag,
                          !.M = M, !.N = N, !.lda = lda, !.ldb = ldb, !.ldc = ldc,
                          !.batch_count = batch_count],
           IF testing_trmm_outofplace_batched_invalid_size(M, N, lda, ldb, ldc, side,
                                                           batch_count)
           THEN "invalid_size" ELSE "success")

\* testing_tpsv_strided_batched_bad_arg.
testing_tpsv_strided_batched_bad_arg_calls ==
    LET ok == [NoArgs EXCEPT !.handle = "valid", !.mode = "host",
                             !.uplo = "lower", !.transA = "none", !.diag = "non_unit",
                             !.N = TpsvBadArgN, !.incx = 1,
                             !.batch_count = TpsvBadArgBatchCount,
                             !.A = "ptr", !.x = "ptr"]
    IN  <<Expect([ok EXCEPT !.uplo = "full"], "invalid_value"),
          Expect([ok EXCEPT !.A = "null"], "invalid_pointer"),
          Expect([ok EXCEPT !.x = "null"], "invalid_pointer"),
          Expect([ok EXCEPT !.handle = "null"], "invalid_handle")>>

\* testing_tpsv_strided_batched, its early return.
\* The size test of testing_tpsv_strided_batched with batch_count <= 0.
testing_tpsv_strided_batched_invalid_size_batch(N, incx, batch_count) ==
    N < 0 \/ incx = 0 \/ batch_count <= 0

testing_tpsv_strided_batched_invalid_size(N, incx, batch_count) ==
    N < 0 \/ incx = 0 \/ batch_count < 0

testing_tpsv_strided_batched_early(N, incx, batch_count) ==
    testing_tpsv_strided_batched_invalid_size(N, incx, batch_count)
    \/ N = 0 \/ batch_count = 0

testing_tpsv_strided_batched_early_call(uplo, transA, diag, N, incx, batch_count) ==
    Expect([NoArgs EXCEPT !.handle = "valid", !.mode = "host",
                          !.uplo = uplo, !.transA = transA, !.diag = diag,
                          !.N = N, !.incx = incx, !.batch_count = batch_count],
           IF testing_tpsv_strided_batched_invalid_size(N, incx, batch_count)
           THEN "invalid_size" ELSE "success")

\* testing_spmv_bad_arg, one pass of its loop over the pointer modes.
testing_spmv_bad_arg_calls(pointer_mode) ==
    LET ok == [NoArgs EXCEPT !.handle = "valid", !.mode = pointer_mode,
                             !.uplo = "upper", !.N = SpmvBadArgN,
                             !.incx = 1, !.incy = 1,
                             !.alpha = "ptr", !.alpha_val = 1,
                             !.beta = "ptr", !.beta_val = 2,
                             !.A = "ptr", !.x = "ptr", !.y = "ptr"]
        allnull == [ok EXCEPT !.alpha = "null", !.alpha_val = 0,
                              !.beta = "null", !.beta_val = 0,
                              !.A = "null", !.x = "null", !.y = "null"]
    IN  <<Expect([ok EXCEPT !.handle = "null", !.mode = "host"], "invalid_handle"),
          Expect([ok EXCEPT !.uplo = "full"], "invalid_value"),
          Expect([ok EXCEPT !.alpha = "null", !.alpha_val = 0], "invalid_pointer"),
          Expect([ok EXCEPT !.beta = "null", !.beta_val = 0], "invalid_pointer")>>
        \o (IF pointer_mode = "host"
            THEN <<Expect([ok EXCEPT !.A = "null"], "invalid_pointer"),
                   Expect([ok EXCEPT !.x = "null"], "invalid_pointer"),
                   Expect([ok EXCEPT !.y = "null"], "invalid_pointer")>>
            ELSE <<>>)
        \o <<Expect([allnull EXCEPT !.N = 0], "success"),
             Expect([ok EXCEPT !.alpha_val = 0, !.A = "null", !.x = "null"], "success"),
             Expect([ok EXCEPT !.alpha_val = 0, !.beta_val = 1,
                               !.A = "null", !.x = "null", !.y = "null"], "success")>>

\* testing_spmv, its early return.
\* testing_spmv taking only N and incx for its invalid sizes.
testing_spmv_invalid_size_no_incy(N, incx, incy) == N < 0 \/ incx = 0

testing_spmv_invalid_size(N, incx, incy) == N < 0 \/ incx = 0 \/ incy = 0

testing_spmv_early_call(uplo, N, incx, incy) ==
    Expect([NoArgs EXCEPT !.handle = "valid", !.mode = "host", !.uplo = uplo,
                          !.N = N, !.incx = incx, !.incy = incy],
           IF testing_spmv_invalid_size(N, incx, incy)
           THEN "invalid_size" ELSE "success")

(***************************************************************************)
(* Matrices and the triangular solve.  A matrix of m rows and n columns is *)
(* a function on (1..m) \X (1..n); its padding up to the leading dimension *)
(* is left out.  Values are integers and the arithmetic is exact.          *)
(***************************************************************************)
Cells(m, n) == (1 .. m) \X (1 .. n)

rocblas_init_zero(m, n) == [ij \in Cells(m, n) |-> 0]

IsZero(X) == \A ij \in DOMAIN X : X[ij] = 0

RECURSIVE Sum(_, _)
Sum(f, S) ==
    IF S = {} THEN 0
    ELSE LET k == CHOOSE k \in S : TRUE IN f[k] + Sum(f, S \ {k})

\* Exact quotient of p by q # 0.
Quotient(p, q) == IF q > 0 THEN p \div q ELSE (0 - p) \div (0 - q)

\* Element (i, j) of the triangle of A that uplo and diag select.
Triangle(uplo, diag, A, i, j) ==
    IF i = j THEN (IF diag = "unit" THEN 1 ELSE A[<<i, i>>])
    ELSE IF (uplo = "upper" /\ i < j) \/ (uplo = "lower" /\ i > j)
    THEN A[<<i, j>>]
    ELSE 0

\* Element (i, j) of op(A).
OpA(a, A, i, j) ==
    IF a.transA = "none"
    THEN Triangle(a.uplo, a.diag, A, i, j)
    ELSE Triangle(a.uplo, a.diag, A, j, i)

\* op(A) is upper triangular.
OpUpper(a) == (a.uplo = "upper") = (a.transA = "none")

\* ref_trmm: alpha * op(A) * B on the left, alpha * B * op(A) on the right.
ref_trmm(a, alpha, A, B) ==
    LET K == K_of(a.side, a.M, a.N)
        el(i, j) ==
            IF a.side = "left"
            THEN alpha * Sum([k \in 1 .. K |-> OpA(a, A, i, k) * B[<<k, j>>]], 1 .. K)
            ELSE alpha * Sum([k \in 1 .. K |-> B[<<i, k>>] * OpA(a, A, k, j)], 1 .. K)
    IN  [ij \in Cells(a.M, a.N) |-> el(ij[1], ij[2])]

\* Element (i, j) of the X with op(A) * X = alpha * B (left) or
\* X * op(A) = alpha * B (right), by substitution.
RECURSIVE Substitute(_, _, _, _, _, _)
Substitute(a, alpha, A, B, i, j) ==
    IF a.side = "left"
    THEN LET before == IF OpUpper(a) THEN (i + 1) .. a.M ELSE 1 .. (i - 1)
             s == Sum([k \in before |->
                          OpA(a, A, i, k) * Substitute(a, alpha, A, B, k, j)], before)
         IN  Quotient(alpha * B[<<i, j>>] - s, OpA(a, A, i, i))
    ELSE LET before == IF OpUpper(a) THEN 1 .. (j - 1) ELSE (j + 1) .. a.N
             s == Sum([k \in before |->
                          Substitute(a, alpha, A, B, i, k) * OpA(a, A, k, j)], before)
         IN  Quotient(alpha * B[<<i, j>>] - s, OpA(a, A, j, j))

\* What a trsm that passed its checks leaves in B: zeros when alpha is zero
\* (A is then not read), the solution X otherwise.
rocblas_trsm_solve(a, alpha, A, B) ==
    IF alpha = 0
    THEN rocblas_init_zero(a.M, a.N)
    ELSE [ij \in Cells(a.M, a.N) |-> Substitute(a, alpha, A, B, ij[1], ij[2])]

\* B after the call rocblas_trsm(a) on device matrices A and B.
trsm_result(a, A, B) ==
    IF "B" \in rocblas_trsm(a).written
    THEN rocblas_trsm_solve(a, a.alpha_val, A, B)
    ELSE B

(***************************************************************************)
(* The data of testing_trsm.                                               *)
(***************************************************************************)
MaxSolveDim == 2
SolveDims == 0 .. MaxSolveDim
Alphas == {-1, 0, 1}

Empty == rocblas_init_zero(0, 0)

NoData == [phase |-> "none", alpha_h |-> 0,
           hA |-> Empty, hX |-> Empty, hB |-> Empty, hXorB_1 |-> Empty,
           dA |-> Empty, dXorB |-> Empty, unit_check |-> "none",
           queried |-> FALSE, size |-> 0,
           dev |-> 0, runs |-> 0, dA_copy |-> Empty, dXorB_copy |-> Empty,
           hXorB_copy |-> Empty]

\* rocblas_init_matrix of hA: a diagonally dominant matrix, both triangles
\* filled; make_unit_diagonal when diag is unit.
InitA(K, diag) ==
    { [ij \in Cells(K, K) |->
          IF ij[1] = ij[2] THEN (IF diag = "unit" THEN 1 ELSE d[1])
          ELSE IF ij[1] < ij[2] THEN d[2] ELSE d[3]] :
        d \in {-4, 3} \X {-1, 1} \X {-1, 1} }

\* rocblas_init_matrix of hX: a general matrix.
InitX(M, N) ==
    { [ij \in Cells(M, N) |-> p[1] * ij[1] + p[2] * ij[2]] : p \in {-1, 1} \X {0, 2} }

\* A factor that is twice 1.0 / alpha_h.
Reciprocal_doubled(alpha_h) ==
    IF alpha_h = 0 THEN {-7, 5} ELSE {2 * r : r \in {q \in -1 .. 1 : q * alpha_h = 1}}

\* The factor 1.0 / alpha_h of ref_trmm.  1.0 / 0 is not a finite number:
\* any value stands for it.
Reciprocal(alpha_h) ==
    IF alpha_h = 0 THEN {-7, 5} ELSE {r \in -1 .. 1 : r * alpha_h = 1}

\* unit_check_general, and in exact arithmetic trsm_err_res_check on the
\* norm of the difference: the two matrices agree.
unit_check_general(X, Y) == IF X = Y THEN "pass" ELSE "fail"

\* The X the test expects: hX, zeroed when alpha_h is zero.
\* The expected X of the test without the zeroing of hX.
testing_trsm_expected_not_zeroed(alpha_h, hX, M, N) == hX

testing_trsm_expected(alpha_h, hX, M, N) ==
    IF alpha_h = 0 THEN rocblas_init_zero(M, N) ELSE hX

(***************************************************************************)
(* Workspace sizing of trsm, in elements.  The inverted diagonal blocks    *)
(* take TRSM_BLOCK x K, K rounded up to a block boundary, per batch        *)
(* member; the temporary result and its backup take M x N per batch        *)
(* member; a non-transposed call may do with one block row or column.      *)
(***************************************************************************)
TRSM_BLOCK == 128

MaxBlocks == 2

\* Dimensions at and around the block boundaries.
WorkspaceDims ==
    { b * TRSM_BLOCK + d : b \in 0 .. MaxBlocks, d \in {-1, 0, 1} } \ {-1}

RoundUpToBlock(k) == ((k + TRSM_BLOCK - 1) \div TRSM_BLOCK) * TRSM_BLOCK

Min(p, q) == IF p <= q THEN p ELSE q

rocblas_internal_trsm_workspace_max_size(side, M, N, batch_count) ==
    [x_tmp |-> M * N * batch_count,
     invA |-> TRSM_BLOCK * RoundUpToBlock(K_of(side, M, N)) * batch_count,
     x_tmp_backup |-> M * N * batch_count]

rocblas_internal_trsm_workspace_size(side, transA, M, N, batch_count, supp_invA_size) ==
    LET other == IF side = "left" THEN N ELSE M
    IN  [x_tmp |-> IF transA = "none"
                   THEN Min(M * N, TRSM_BLOCK * other) * batch_count
                   ELSE M * N * batch_count,
         invA |-> IF supp_invA_size > 0
                  THEN 0
                  ELSE TRSM_BLOCK * RoundUpToBlock(K_of(side, M, N)) * batch_count,
         x_tmp_backup |-> M * N * batch_count]

\* The sizes the loops of testing_trsm_internal_interfaces visit, all above M
\* included.
testing_trsm_internal_interfaces_sweep_unbounded(M, N) ==
    { mn \in WorkspaceDims \X WorkspaceDims : mn[1] > 0 /\ mn[2] > 0 }

\* The sizes the loops of testing_trsm_internal_interfaces visit.
testing_trsm_internal_interfaces_sweep(M, N) ==
    { mn \in WorkspaceDims \X WorkspaceDims :
        mn[1] > 0 /\ mn[1] <= M /\ mn[2] > 0 /\ mn[2] <= N }

\* The assertion of testing_trsm_internal_interfaces.
testing_trsm_internal_interfaces_assert(sizes2, sizes) ==
    IF /\ sizes2.x_tmp <= sizes.x_tmp
       /\ sizes2.invA <= sizes.invA
       /\ sizes2.x_tmp_backup <= sizes.x_tmp_backup
    THEN "pass" ELSE "fail"

(***************************************************************************)
(* State machine: one action per caller.                                   *)
(***************************************************************************)
Init ==
    /\ test = "none"
    /\ routine = "none"
    /\ args = NoArgs
    /\ status = "none"
    /\ expected = "none"
    /\ steps = <<>>
    /\ written = {}
    /\ data = NoData

\* No call is in progress or awaiting its caller.
Idle == test = "none"

\* The caller t calls routine r with arguments a and asserts status x
\* ("none": it asserts nothing).
Make(t, r, a, e, x) ==
    LET res == Call(r, a, e)
    IN  /\ Idle
        /\ test' = t
        /\ routine' = r
        /\ args' = a
        /\ status' = res.status
        /\ expected' = x
        /\ steps' = res.steps
        /\ written' = res.written
        /\ UNCHANGED data

\* Any caller of the library: any routine, any arguments.
ApiCall ==
    /\ Idle
    /\ \E r \in Routines : \E b \in BaseOf(r) : \E a \in ArgsOf(r, b) :
         \E e \in IF r = "hbmv" THEN HbmvEnv ELSE {NoEnv} :
            Make("client", r, a, e, "none")

\* The argument values the tests are run with (the fields of Arguments).
ArgSides == {"left", "right"}
ArgFills == {"upper", "lower"}
ArgOperations == {"none", "transpose", "conjugate_transpose"}
ArgDiagonals == {"non_unit", "unit"}

\* One call of testing_trsm_bad_arg.
TestingTrsmBadArg ==
    /\ Idle
    /\ \E pm \in PointerModes :
         \E i \in DOMAIN testing_trsm_bad_arg_calls(pm) :
            LET c == testing_trsm_bad_arg_calls(pm)[i]
            IN  Make("testing_trsm_bad_arg", "trsm", c.a, NoEnv, c.x)

\* One call of testing_trmm_outofplace_batched_bad_arg.
TestingTrmmOutofplaceBatchedBadArg ==
    /\ Idle
    /\ \E i \in DOMAIN testing_trmm_outofplace_batched_bad_arg_calls :
            LET c == testing_trmm_outofplace_batched_bad_arg_calls[i]
            IN  Make("testing_trmm_outofplace_batched_bad_arg",
                     "trmm_outofplace_batched", c.a, NoEnv, c.x)

\* One call of testing_tpsv_strided_batched_bad_arg.
TestingTpsvStridedBatchedBadArg ==
    /\ Idle
    /\ \E i \in DOMAIN testing_tpsv_strided_batched_bad_arg_calls :
            LET c == testing_tpsv_strided_batched_bad_arg_calls[i]
            IN  Make("testing_tpsv_strided_batched_bad_arg",
                     "tpsv_strided_batched", c.a, NoEnv, c.x)

\* One call of testing_spmv_bad_arg.
TestingSpmvBadArg ==
    /\ Idle
    /\ \E pm \in PointerModes :
         \E i \in DOMAIN testing_spmv_bad_arg_calls(pm) :
            LET c == testing_spmv_bad_arg_calls(pm)[i]
            IN  Make("testing_spmv_bad_arg", "spmv", c.a, NoEnv, c.x)

\* The early return of testing_trsm.
TestingTrsmEarly ==
    /\ Idle
    /\ \E sd \in ArgSides, ul \in ArgFills, tr \in ArgOperations, dg \in ArgDiagonals,
          m \in Dims, n \in Dims :
         \E lda \in Lds(K_of(sd, m, n)), ldb \in Lds(m) :
            /\ testing_trsm_invalid_size(m, n, lda, ldb, sd)
            /\ LET c == testing_trsm_early_call(sd, ul, tr, dg, m, n, lda, ldb)
               IN  Make("testing_trsm", "trsm", c.a, NoEnv, c.x)

\* The early return of testing_trsm_batched_ex.
TestingTrsmBatchedExEarly ==
    /\ Idle
    /\ \E sd \in ArgSides, ul \in ArgFills, tr \in ArgOperations, dg \in ArgDiagonals,
          m \in Dims, n \in Dims, bc \in BatchCounts, al \in {0, 1} :
         \E lda \in Lds(K_of(sd, m, n)), ldb \in Lds(m) :
            /\ testing_trsm_batched_ex_early(m, n, lda, ldb, sd, bc)
            /\ LET c == testing_trsm_batched_ex_early_call(sd, ul, tr, dg, m, n,
                                                           lda, ldb, bc, al)
               IN  Make("testing_trsm_batched_ex", "trsm_batched_ex", c.a, NoEnv, c.x)

\* The early return of testing_trmm_outofplace_batched.
TestingTrmmOutofplaceBatchedEarly ==
    /\ Idle
    /\ \E sd \in ArgSides, ul \in ArgFills, tr \in ArgOperations, dg \in ArgDiagonals,
          m \in Dims, n \in Dims, bc \in BatchCounts :
         \E lda \in Lds(K_of(sd, m, n)), ldb \in Lds(m), ldc \in Lds(m) :
            /\ testing_trmm_outofplace_batched_early(m, n, lda, ldb, ldc, sd, bc)
            /\ LET c == testing_trmm_outofplace_batched_early_call(
                            sd, ul, tr, dg, m, n, lda, ldb, ldc, bc)
               IN  Make("testing_trmm_outofplace_batched", "trmm_outofplace_batched",
                        c.a, NoEnv, c.x)

\* The early return of testing_tpsv_strided_batched.
TestingTpsvStridedBatchedEarly ==
    /\ Idle
    /\ \E ul \in ArgFills, tr \in ArgOperations, dg \in ArgDiagonals,
          n \in Dims, ix \in Increments, bc \in BatchCounts :
            /\ testing_tpsv_strided_batched_early(n, ix, bc)
            /\ LET c == testing_tpsv_strided_batched_early_call(ul, tr, dg, n, ix, bc)
               IN  Make("testing_tpsv_strided_batched", "tpsv_strided_batched",
                        c.a, NoEnv, c.x)

\* The early return of testing_spmv.
TestingSpmvEarly ==
    /\ Idle
    /\ \E ul \in ArgFills, n \in Dims, ix \in Increments, iy \in Increments :
            /\ testing_spmv_invalid_size(n, ix, iy) \/ n = 0
            /\ LET c == testing_spmv_early_call(ul, n, ix, iy)
               IN  Make("testing_spmv", "spmv", c.a, NoEnv, c.x)

\* The caller has read the status; the next call starts afresh.
Return ==
    /\ ~Idle
    /\ test' = "none"
    /\ routine' = "none"
    /\ args' = NoArgs
    /\ status' = "none"
    /\ expected' = "none"
    /\ steps' = <<>>
    /\ written' = {}
    /\ data' = NoData

Next ==
    \/ ApiCall
    \/ TestingTrsmBadArg
    \/ TestingTrmmOutofplaceBatchedBadArg
    \/ TestingTpsvStridedBatchedBadArg
    \/ TestingSpmvBadArg
    \/ TestingTrsmEarly
    \/ TestingTrsmBatchedExEarly
    \/ TestingTrmmOutofplaceBatchedEarly
    \/ TestingTpsvStridedBatchedEarly
    \/ TestingSpmvEarly
    \/ Return

Spec == Init /\ [][Next]_vars

(***************************************************************************)
(* testing_trsm on valid sizes: set-up, the solve in host pointer mode and *)
(* the solve in device pointer mode, each followed by the test's checks.   *)
(***************************************************************************)
TestingTrsmSetup ==
    /\ Idle
    /\ \E sd \in ArgSides, ul \in ArgFills, tr \in ArgOperations, dg \in ArgDiagonals,
          m \in SolveDims, n \in SolveDims, al \in Alphas :
         \E hA \in InitA(K_of(sd, m, n), dg), hX \in InitX(m, n),
            r \in Reciprocal(al) :
            LET a  == [NoArgs EXCEPT !.handle = "valid", !.mode = "host",
                                     !.side = sd, !.uplo = ul,
                                     !.transA = tr, !.diag = dg,
                                     !.M = m, !.N = n,
                                     !.lda = K_of(sd, m, n), !.ldb = m,
                                     !.alpha = "ptr", !.alpha_val = al,
                                     !.A = "ptr", !.B = "ptr"]
                hB == ref_trmm(a, r, hA, hX)
            IN  /\ ~testing_trsm_invalid_size(a.M, a.N, a.lda, a.ldb, a.side)
                /\ test' = "testing_trsm"
                /\ routine' = "trsm"
                /\ args' = a
                /\ data' = [phase |-> "setup", alpha_h |-> al,
                            hA |-> hA, hX |-> hX, hB |-> hB, hXorB_1 |-> hB,
                            dA |-> hA, dXorB |-> hB, unit_check |-> "none",
                            queried |-> FALSE, size |-> 0,
                            dev |-> 0, runs |-> 0, dA_copy |-> Empty,
                            dXorB_copy |-> Empty, hXorB_copy |-> Empty]
                /\ UNCHANGED <<status, expected, steps, written>>

\* The device memory a solve asks for: the temporary result and the inverted
\* diagonal blocks.
rocblas_trsm_device_memory_size(a) ==
    LET w == rocblas_internal_trsm_workspace_size(a.side, a.transA, a.M, a.N, 1, 0)
    IN  w.x_tmp + w.invA

\* The size query of testing_trsm: the call between the start and the stop of
\* the query, then the size the stop reports, given to the handle.
TestingTrsmSizeQuery ==
    /\ test = "testing_trsm" /\ data.phase = "setup"
    /\ LET a   == [args EXCEPT !.query = TRUE]
           res == rocblas_trsm(a)
       IN  /\ args' = a
           /\ status' = res.status
           /\ steps' = res.steps
           /\ written' = res.written
           /\ data' = [data EXCEPT
                         !.phase = "query", !.queried = TRUE,
                         !.dXorB = trsm_result(a, data.dA, data.dXorB),
                         !.size = IF res.status = "size_increased"
                                  THEN rocblas_trsm_device_memory_size(a) ELSE 0]
           /\ UNCHANGED <<test, routine, expected>>

\* The call of rocblas_trsm on the device buffers and the checks after it.
testing_trsm_run(pointer_mode, hXorB_in) ==
    LET a      == [args EXCEPT !.mode = pointer_mode, !.query = FALSE]
        res    == rocblas_trsm(a)
        dXorB  == trsm_result(a, data.dA, hXorB_in)
        hX     == testing_trsm_expected(data.alpha_h, data.hX, a.M, a.N)
        check  == unit_check_general(hX, dXorB)
        \* the residual: A * (computed X) against hB
        hAX    == IF data.alpha_h = 0
                  THEN dXorB
                  ELSE ref_trmm(a, CHOOSE r \in Reciprocal(data.alpha_h) : TRUE,
                                data.hA, dXorB)
        res_ok == IF data.alpha_h = 0 THEN "pass" ELSE unit_check_general(hAX, data.hB)
    IN  /\ args' = a
        /\ status' = res.status
        /\ expected' = "success"
        /\ steps' = res.steps
        /\ written' = res.written
        /\ data' = [data EXCEPT !.phase = pointer_mode,
                                !.hX = hX, !.dXorB = dXorB, !.hXorB_1 = hAX,
                                !.unit_check = IF check = "pass" THEN res_ok ELSE "fail"]
        /\ UNCHANGED <<test, routine>>

TestingTrsmHost ==
    /\ test = "testing_trsm" /\ data.phase \in {"setup", "query"}
    /\ testing_trsm_run("host", data.hXorB_1)

TestingTrsmDevice ==
    /\ test = "testing_trsm" /\ data.phase \in {"setup", "query", "host"}
    /\ testing_trsm_run("device", data.hB)

\* Any caller solving with alpha = 0, whatever A and B hold.
SolveZeroAlpha ==
    /\ Idle
    /\ \E sd \in ArgSides, ul \in ArgFills, tr \in ArgOperations, dg \in ArgDiagonals,
          m \in SolveDims, n \in SolveDims, pm \in PointerModes, pa \in Pointers :
         \E A \in InitA(K_of(sd, m, n), "non_unit"), X \in InitX(m, n) :
            LET a == [NoArgs EXCEPT !.handle = "valid", !.mode = pm,
                                    !.side = sd, !.uplo = ul,
                                    !.transA = tr, !.diag = dg,
                                    !.M = m, !.N = n,
                                    !.lda = K_of(sd, m, n), !.ldb = m,
                                    !.alpha = "ptr", !.alpha_val = 0,
                                    !.A = pa, !.B = "ptr"]
                res == rocblas_trsm(a)
            IN  /\ test' = "client"
                /\ routine' = "trsm"
                /\ args' = a
                /\ status' = res.status
                /\ expected' = "none"
                /\ steps' = res.steps
                /\ written' = res.written
                /\ data' = [NoData EXCEPT !.phase = "client",
                                          !.dA = IF pa = "null" THEN Empty ELSE A,
                                          !.dXorB = trsm_result(a, A, X)]

\* The hbmv calls of a size query: valid handles, every fault of the other
\* arguments.
HbmvQueryArgs ==
    { [b EXCEPT !.k = kk, !.lda = kk + 1 - sa, !.query = TRUE, !.check_numerics = cn] :
        b \in { c \in SpmvArgs : /\ c.handle = "valid" /\ c.incy = 1
                                 /\ c.beta = "ptr" /\ c.x = "ptr" },
        kk \in Dims, sa \in {0, 1}, cn \in BOOLEAN }

\* rocblas_hbmv between the start and the stop of a size query.
HbmvSizeQuery ==
    /\ Idle
    /\ \E a \in HbmvQueryArgs, e \in HbmvEnv :
         LET res == rocblas_hbmv_impl(a, e)
         IN  /\ test' = "client"
             /\ routine' = "hbmv"
             /\ args' = a
             /\ status' = res.status
             /\ expected' = "none"
             /\ steps' = res.steps
             /\ written' = res.written
             /\ data' = [NoData EXCEPT !.phase = "query", !.queried = TRUE]

\* The same call after the stop of the query.
HbmvAfterQuery ==
    /\ routine = "hbmv" /\ data.phase = "query"
    /\ \E e \in HbmvEnv :
         LET a   == [args EXCEPT !.query = FALSE]
             res == rocblas_hbmv_impl(a, e)
         IN  /\ args' = a
             /\ status' = res.status
             /\ steps' = res.steps
             /\ written' = res.written
             /\ data' = [data EXCEPT !.phase = "call"]
             /\ UNCHANGED <<test, routine, expected>>

NextSolve ==
    \/ TestingTrsmSetup
    \/ TestingTrsmSizeQuery
    \/ HbmvSizeQuery
    \/ HbmvAfterQuery
    \/ TestingTrsmHost
    \/ TestingTrsmDevice
    \/ SolveZeroAlpha
    \/ Return

SpecSolve == Init /\ [][NextSolve]_vars

(***************************************************************************)
(* testing_trsm_internal_interfaces: the maximum sizes for (M, N), then    *)
(* the exact sizes of every smaller problem against them.                  *)
(***************************************************************************)
TestingTrsmInternalInterfaces ==
    /\ Idle
    /\ \E sd \in ArgSides, m \in WorkspaceDims, n \in WorkspaceDims,
          bc \in 1 .. MaxBatch + 1 :
            /\ test' = "testing_trsm_internal_interfaces"
            /\ routine' = "trsm_workspace_max_size"
            /\ args' = [NoArgs EXCEPT !.side = sd, !.M = m, !.N = n,
                                      !.batch_count = bc]
            /\ status' = "success"
            /\ expected' = "success"
            /\ data' = [phase |-> "max_size",
                        max |-> rocblas_internal_trsm_workspace_max_size(sd, m, n, bc),
                        sizes |-> rocblas_internal_trsm_workspace_max_size(sd, 0, 0, bc),
                        smaller |-> <<m, n>>, transA |-> "na", check |-> "none"]
            /\ UNCHANGED <<steps, written>>

\* One pass of the inner loop.
TestingTrsmInternalInterfacesSweep ==
    /\ test = "testing_trsm_internal_interfaces" /\ data.phase \in {"max_size", "sweep"}
    /\ \E mn \in testing_trsm_internal_interfaces_sweep(args.M, args.N) :
         LET sizes2 == rocblas_internal_trsm_workspace_size(
                           args.side, "transpose", mn[1], mn[2], args.batch_count, 0)
         IN  /\ routine' = "trsm_workspace_size"
             /\ data' = [data EXCEPT
                           !.phase = "sweep", !.sizes = sizes2, !.smaller = mn,
                           !.transA = "transpose",
                           !.check = testing_trsm_internal_interfaces_assert(sizes2, data.max)]
             /\ UNCHANGED <<test, args, status, expected, steps, written>>

\* Any caller asking the exact sizes of a problem no larger than (M, N),
\* allocated for with the maximum sizes.
WorkspaceSize ==
    /\ test = "testing_trsm_internal_interfaces" /\ data.phase = "max_size"
    /\ \E m \in WorkspaceDims, n \in WorkspaceDims, tr \in ArgOperations :
         /\ m <= args.M /\ n <= args.N
         /\ routine' = "trsm_workspace_size"
         /\ data' = [data EXCEPT
                       !.phase = "client", !.smaller = <<m, n>>, !.transA = tr,
                       !.sizes = rocblas_internal_trsm_workspace_size(
                                     args.side, tr, m, n, args.batch_count, 0),
                       !.check = "none"]
         /\ UNCHANGED <<test, args, status, expected, steps, written>>

NextWorkspace ==
    \/ TestingTrsmInternalInterfaces
    \/ TestingTrsmInternalInterfacesSweep
    \/ WorkspaceSize
    \/ Return

SpecWorkspace == Init /\ [][NextWorkspace]_vars

(***************************************************************************)
(* One call of rocblas_trsm_batched_ex, state by state: the validation,    *)
(* then the rejection, the quick return, the size report or the            *)
(* computation; the computation inverts the diagonal blocks of every batch *)
(* member unless the caller supplies them, then substitutes.               *)
(***************************************************************************)
MaxMembers == 2

CallDims == {0, 1, TRSM_BLOCK, TRSM_BLOCK + 1}

CallStates ==
    {"VALIDATE", "REJECT", "QUICK_RETURN", "SIZE_QUERY", "COMPUTE",
     "INVERT_BLOCKS", "SUBSTITUTE", "DONE"}

\* The diagonal blocks of a member that the test inverts without the block
\* of the remainder.
testing_trsm_batched_ex_blocks_full_only(K) ==
    LET blocks == K \div TRSM_BLOCK
    IN  IF blocks > 0 THEN 0 .. blocks - 1 ELSE {}

\* The diagonal blocks of a member that the test inverts with
\* rocblas_trtri_strided_batched: the full blocks, then the remainder.
testing_trsm_batched_ex_blocks(K) ==
    LET blocks == K \div TRSM_BLOCK
    IN  (IF blocks > 0 THEN 0 .. blocks - 1 ELSE {})
        \cup (IF K % TRSM_BLOCK # 0 \/ blocks = 0 THEN {blocks} ELSE {})

\* The inverses a caller supplies in invA: those of every member.
testing_trsm_batched_ex_invA(K, batch_count) ==
    { <<b, j>> : b \in 0 .. batch_count - 1, j \in testing_trsm_batched_ex_blocks(K) }

\* The diagonal blocks the substitution of a member reads: one for every
\* TRSM_BLOCK rows of A, the last one possibly smaller.
DiagonalBlocks(K) == { j \in 0 .. K : j * TRSM_BLOCK < K }

BlocksUsed(a) ==
    { <<b, j>> : b \in 0 .. a.batch_count - 1,
                 j \in DiagonalBlocks(K_of(a.side, a.M, a.N)) }

CallArgs ==
    { [NoArgs EXCEPT !.handle = h[1], !.mode = "host", !.query = h[2],
                     !.side = sd, !.uplo = "upper", !.transA = tr, !.diag = "non_unit",
                     !.M = m, !.N = n, !.lda = K_of(sd, m, n) - sa, !.ldb = m,
                     !.batch_count = bc,
                     !.alpha = al, !.alpha_val = 1, !.A = "ptr", !.B = pb] :
        h \in {<<"null", FALSE>>, <<"valid", FALSE>>, <<"valid", TRUE>>},
        sd \in {"left", "right"}, tr \in {"none", "transpose"},
        m \in CallDims, n \in CallDims, sa \in {0, 1},
        bc \in -1 .. MaxMembers, al \in Pointers, pb \in Pointers }

\* The state a call leaves VALIDATE for.
AfterValidate(res) ==
    IF res.status \in {"size_increased", "size_unchanged"} THEN "SIZE_QUERY"
    ELSE IF res.status # "success" THEN "REJECT"
    ELSE IF res.written = {} THEN "QUICK_RETURN"
    ELSE "COMPUTE"

Enter(state) == [data EXCEPT !.phase = state, !.trace = Append(data.trace, state)]

CallStart ==
    /\ Idle
    /\ \E a \in CallArgs, supplied \in BOOLEAN :
         /\ test' = IF supplied THEN "testing_trsm_batched_ex" ELSE "client"
         /\ routine' = "trsm_batched_ex"
         /\ args' = a
         /\ data' = [phase |-> "VALIDATE", trace |-> <<"VALIDATE">>,
                     supplied |-> supplied,
                     invA |-> IF supplied
                              THEN testing_trsm_batched_ex_invA(K_of(a.side, a.M, a.N),
                                                                a.batch_count)
                              ELSE {}]
         /\ UNCHANGED <<status, expected, steps, written>>

CallValidate ==
    /\ routine = "trsm_batched_ex" /\ data.phase = "VALIDATE"
    /\ LET res  == rocblas_trsm_batched_ex(args)
           next == AfterValidate(res)
       IN  /\ data' = Enter(next)
           /\ IF next = "COMPUTE"
              THEN UNCHANGED <<status, steps, written>>
              ELSE /\ status' = res.status
                   /\ steps' = res.steps
                   /\ written' = res.written
           /\ UNCHANGED <<test, routine, args, expected>>

CallCompute ==
    /\ routine = "trsm_batched_ex" /\ data.phase = "COMPUTE"
    /\ data' = Enter(IF data.supplied THEN "SUBSTITUTE" ELSE "INVERT_BLOCKS")
    /\ UNCHANGED <<test, routine, args, status, expected, steps, written>>

\* The inversion of one diagonal block of one member, in any order.
CallInvertBlock ==
    /\ routine = "trsm_batched_ex" /\ data.phase = "INVERT_BLOCKS"
    /\ \E bj \in BlocksUsed(args) \ data.invA :
         data' = [data EXCEPT !.invA = data.invA \cup {bj}]
    /\ UNCHANGED <<test, routine, args, status, expected, steps, written>>

CallInverted ==
    /\ routine = "trsm_batched_ex" /\ data.phase = "INVERT_BLOCKS"
    /\ BlocksUsed(args) \subseteq data.invA
    /\ data' = Enter("SUBSTITUTE")
    /\ UNCHANGED <<test, routine, args, status, expected, steps, written>>

CallSubstitute ==
    /\ routine = "trsm_batched_ex" /\ data.phase = "SUBSTITUTE"
    /\ LET res == rocblas_trsm_batched_ex(args)
       IN  /\ data' = Enter("DONE")
           /\ status' = res.status
           /\ steps' = res.steps
           /\ written' = res.written
    /\ UNCHANGED <<test, routine, args, expected>>

NextCall ==
    \/ CallStart
    \/ CallValidate
    \/ CallCompute
    \/ CallInvertBlock
    \/ CallInverted
    \/ CallSubstitute
    \/ Return

SpecCall == Init /\ [][NextCall]_vars

(***************************************************************************)
(* The two index widths of an entry point.  The tests hold every size in   *)
(* an int64_t and hand it to the variant chosen by arg.api; the narrow     *)
(* variant takes it as a rocblas_int.  The narrow width is IndexBits bits  *)
(* here, the wide one holds every value of the model.                      *)
(***************************************************************************)
IndexBits == 8

Wide == 2 ^ IndexBits

Apis == {"32", "64"}

OtherApi(api) == IF api = "32" THEN "64" ELSE "32"

\* A conversion to an index narrower than rocblas_int.
Narrow_short(v) == ((v + Wide \div 8) % (Wide \div 4)) - Wide \div 8

\* The conversion of an int64_t to rocblas_int.
Narrow(v) == ((v + Wide \div 2) % Wide) - Wide \div 2

Index(api, v) == IF api = "32" THEN Narrow(v) ELSE v

\* The arguments as the variant api receives them.
ApiIndex(api, a) ==
    [a EXCEPT !.M = Index(api, a.M), !.N = Index(api, a.N), !.k = Index(api, a.k),
              !.lda = Index(api, a.lda), !.ldb = Index(api, a.ldb),
              !.ldc = Index(api, a.ldc), !.incx = Index(api, a.incx),
              !.incy = Index(api, a.incy),
              !.batch_count = Index(api, a.batch_count)]

\* Every size of a fits in a rocblas_int.
Fits(a) == ApiIndex("32", a) = a

\* The sizes a caller tries: small ones, and those one narrow word away.
ApiInts == {-1, 0, 1, 2, Wide - 1, Wide, Wide + 1}

ApiTrsmArgs ==
    { [NoArgs EXCEPT !.handle = h, !.mode = "host",
                     !.side = sd, !.uplo = "upper", !.transA = "none",
                     !.diag = "non_unit",
                     !.M = m, !.N = n, !.lda = K_of(sd, m, n) - sa, !.ldb = m,
                     !.alpha = "ptr", !.alpha_val = 1, !.A = "ptr", !.B = pb] :
        h \in {"null", "valid"}, sd \in {"left", "right"},
        m \in ApiInts, n \in ApiInts, sa \in {0, 1}, pb \in Pointers }

ApiHbmvArgs ==
    { [NoArgs EXCEPT !.handle = "valid", !.mode = "host", !.uplo = "upper",
                     !.N = n, !.k = kk, !.lda = kk + 1 - sa,
                     !.incx = ix, !.incy = 1,
                     !.alpha = "ptr", !.alpha_val = 1, !.beta = "ptr", !.beta_val = 1,
                     !.A = "ptr", !.x = "ptr", !.y = py, !.check_numerics = cn] :
        n \in ApiInts, kk \in {0, 1, Wide}, sa \in {0, 1}, ix \in {0, 1, Wide},
        py \in Pointers, cn \in BOOLEAN }

\* The solution a solve of sample operands leaves in B (Empty when the call
\* computes nothing or the operands are larger than the samples).
ApiOutput(r, a) ==
    IF /\ r = "trsm" /\ a.M \in 1 .. MaxSolveDim /\ a.N \in 1 .. MaxSolveDim
       /\ rocblas_trsm(a).written = {"B"}
    THEN trsm_result(a, CHOOSE A \in InitA(K_of(a.side, a.M, a.N), a.diag) : TRUE,
                        CHOOSE X \in InitX(a.M, a.N) : TRUE)
    ELSE Empty

\* The caller t calls the variant api of routine r and asserts status x.
MakeApi(t, r, a, e, x, api) ==
    LET res == Call(r, ApiIndex(api, a), e)
    IN  /\ test' = t
        /\ routine' = r
        /\ args' = a
        /\ status' = res.status
        /\ expected' = x
        /\ steps' = res.steps
        /\ written' = res.written
        /\ data' = [phase |-> "api", api |-> api, fits |-> Fits(a),
                    out |-> ApiOutput(r, ApiIndex(api, a)),
                    other |-> Call(r, ApiIndex(OtherApi(api), a), e),
                    other_out |-> ApiOutput(r, ApiIndex(OtherApi(api), a))]

ApiTrsm ==
    /\ Idle
    /\ \E a \in ApiTrsmArgs, api \in Apis : MakeApi("client", "trsm", a, NoEnv, "none", api)

ApiHbmv ==
    /\ Idle
    /\ \E a \in ApiHbmvArgs, e \in HbmvEnv, api \in Apis :
         MakeApi("client", "hbmv", a, e, "none", api)

\* One call of testing_trsm_bad_arg, by the variant of arg.api.
TestingTrsmBadArgApi ==
    /\ Idle
    /\ \E pm \in PointerModes, api \in Apis :
         \E i \in DOMAIN testing_trsm_bad_arg_calls(pm) :
            LET c == testing_trsm_bad_arg_calls(pm)[i]
            IN  MakeApi("testing_trsm_bad_arg", "trsm", c.a, NoEnv, c.x, api)

\* The early return of testing_trsm, by the variant of arg.api.
TestingTrsmEarlyApi ==
    /\ Idle
    /\ \E sd \in ArgSides, ul \in ArgFills, tr \in ArgOperations, dg \in ArgDiagonals,
          m \in Dims, n \in Dims, api \in Apis :
         \E lda \in Lds(K_of(sd, m, n)), ldb \in Lds(m) :
            /\ testing_trsm_invalid_size(m, n, lda, ldb, sd)
            /\ LET c == testing_trsm_early_call(sd, ul, tr, dg, m, n, lda, ldb)
               IN  MakeApi("testing_trsm", "trsm", c.a, NoEnv, c.x, api)

NextApi ==
    \/ ApiTrsm
    \/ ApiHbmv
    \/ TestingTrsmBadArgApi
    \/ TestingTrsmEarlyApi
    \/ Return

SpecApi == Init /\ [][NextApi]_vars

(***************************************************************************)
(* testing_trsm_batched_ex with data: every batch member has its own A, B  *)
(* and invA; the test inverts the blocks of every member, then the call    *)
(* substitutes the members in any order.  K is below TRSM_BLOCK here, so   *)
(* the one diagonal block of a member is its whole triangle, and its       *)
(* inverse is held as the matrix it was computed from.                     *)
(***************************************************************************)
Members(a) == 1 .. a.batch_count

\* The operands of one member: rocblas_init of hA[b] and hX[b].
MemberA(K, diag) == { A \in InitA(K, diag) : A[<<1, K>>] = -A[<<K, 1>>] }

MemberX(M, N) == { X \in InitX(M, N) : X[<<1, 1>>] # 1 }

\* An inversion that reads the blocks of the first member for every member.
testing_trsm_batched_ex_trtri_first(bA, b) == bA[1]

\* rocblas_trtri_strided_batched on bA[b] into binvA[b].
testing_trsm_batched_ex_trtri(bA, b) == bA[b]

TestingTrsmBatchedExSetup ==
    /\ Idle
    /\ \E sd \in ArgSides, ul \in ArgFills, tr \in {"none", "transpose"},
          dg \in ArgDiagonals, al \in Alphas \ {0}, bc \in 1 .. MaxMembers :
         LET m == MaxSolveDim
             K == K_of(sd, m, m)
             a == [NoArgs EXCEPT !.handle = "valid", !.mode = "host",
                                 !.side = sd, !.uplo = ul,
                                 !.transA = tr, !.diag = dg,
                                 !.M = m, !.N = m, !.lda = K, !.ldb = m,
                                 !.batch_count = bc,
                                 !.alpha = "ptr", !.alpha_val = al,
                                 !.A = "ptr", !.B = "ptr"]
         IN  \E hA \in [1 .. bc -> MemberA(K, dg)], hX \in [1 .. bc -> MemberX(m, m)],
                r \in Reciprocal(al) :
                /\ ~testing_trsm_batched_ex_early(a.M, a.N, a.lda, a.ldb, a.side, bc)
                /\ test' = "testing_trsm_batched_ex"
                /\ routine' = "trsm_batched_ex"
                /\ args' = a
                /\ data' = [phase |-> "setup", hA |-> hA, hX |-> hX,
                            hB |-> [b \in 1 .. bc |-> ref_trmm(a, r, hA[b], hX[b])],
                            dA |-> hA,
                            dXorB |-> [b \in 1 .. bc |-> ref_trmm(a, r, hA[b], hX[b])],
                            invA |-> [b \in 1 .. bc |-> Empty],
                            hXorB_1 |-> <<>>, calls |-> 0, done |-> {},
                            alpha_h |-> al, alpha_d |-> {}]
                /\ UNCHANGED <<status, expected, steps, written>>

\* The inversion of the diagonal blocks of member b.
TestingTrsmBatchedExInvert ==
    /\ test = "testing_trsm_batched_ex" /\ data.phase = "setup"
    /\ \E b \in Members(args) :
         /\ data.invA[b] = Empty
         /\ data' = [data EXCEPT !.invA[b] = testing_trsm_batched_ex_trtri(data.dA, b)]
    /\ UNCHANGED <<test, routine, args, status, expected, steps, written>>

\* The call, up to the start of the substitution.
TestingTrsmBatchedExCall ==
    /\ test = "testing_trsm_batched_ex" /\ data.phase = "setup"
    /\ \A b \in Members(args) : data.invA[b] # Empty
    /\ data' = [data EXCEPT !.phase = IF rocblas_trsm_batched_ex(args).written = {"B"}
                                      THEN "substitute" ELSE "done",
                            !.calls = 1]
    /\ IF rocblas_trsm_batched_ex(args).written = {"B"}
       THEN UNCHANGED <<status, expected, steps, written>>
       ELSE /\ expected' = "success"
            /\ status' = rocblas_trsm_batched_ex(args).status
            /\ steps' = rocblas_trsm_batched_ex(args).steps
            /\ written' = {}
    /\ UNCHANGED <<test, routine, args>>

\* The alpha a kernel reads: the host value in host pointer mode, what
\* alpha_d holds in device pointer mode (anything while it was never
\* written).
AlphaRead(a, d) ==
    IF a.mode = "host" THEN {d.alpha_h}
    ELSE IF d.alpha_d = {} THEN Alphas ELSE d.alpha_d

\* The substitution of member b with its supplied inverse; the call returns
\* after the last member.
SubstituteMember ==
    /\ test = "testing_trsm_batched_ex" /\ data.phase = "substitute"
    /\ \E b \in Members(args) \ data.done, alpha \in AlphaRead(args, data) :
         LET res  == rocblas_trsm_batched_ex(args)
             last == data.done \cup {b} = Members(args)
         IN  /\ data' = [data EXCEPT
                           !.dXorB[b] = rocblas_trsm_solve(args, alpha,
                                                           data.invA[b], data.dXorB[b]),
                           !.done = data.done \cup {b},
                           !.phase = IF last THEN "done" ELSE "substitute"]
             /\ status' = IF last THEN res.status ELSE status
             /\ steps' = IF last THEN res.steps ELSE steps
             /\ written' = IF last THEN res.written ELSE written
             /\ expected' = IF last THEN "success" ELSE expected
    /\ UNCHANGED <<test, routine, args>>

\* A second call that solves on what the first call left in B.
testing_trsm_batched_ex_device_no_reload(d) ==
    [d EXCEPT !.hXorB_1 = d.dXorB, !.alpha_d = {d.alpha_h},
              !.done = {}, !.phase = "substitute", !.calls = 2]

\* A second call whose alpha_d was never written.
testing_trsm_batched_ex_device_no_alpha(d) ==
    [d EXCEPT !.hXorB_1 = d.dXorB, !.dXorB = d.hB,
              !.done = {}, !.phase = "substitute", !.calls = 2]

\* Between the two calls: the solution is copied to hXorB_1, B is loaded
\* again from hXorB_2, alpha_h is copied to alpha_d; dA and dinvA stay as
\* they are.
testing_trsm_batched_ex_device(d) ==
    [d EXCEPT !.hXorB_1 = d.dXorB, !.dXorB = d.hB, !.alpha_d = {d.alpha_h},
              !.done = {}, !.phase = "substitute", !.calls = 2]

\* The second call, in device pointer mode, up to the start of the
\* substitution.
TestingTrsmBatchedExDevice ==
    /\ test = "testing_trsm_batched_ex" /\ data.phase = "done" /\ data.calls = 1
    /\ args' = [args EXCEPT !.mode = "device"]
    /\ data' = testing_trsm_batched_ex_device(data)
    /\ status' = "none"
    /\ expected' = "none"
    /\ steps' = <<>>
    /\ written' = {}
    /\ UNCHANGED <<test, routine>>

NextBatch ==
    \/ TestingTrsmBatchedExSetup
    \/ TestingTrsmBatchedExInvert
    \/ TestingTrsmBatchedExCall
    \/ TestingTrsmBatchedExDevice
    \/ SubstituteMember
    \/ Return

SpecBatch == Init /\ [][NextBatch]_vars

(***************************************************************************)
(* The repeatability check of testing_trsm: the solve in device pointer    *)
(* mode, then on every device a new handle, new buffers loaded from the    *)
(* host, and arg.iters runs, each compared with the first result.          *)
(***************************************************************************)
MaxDevices == 2
MaxRuns == 2

\* The first solve, in device pointer mode, and its result in hXorB_1.
TestingTrsmRepeatability ==
    /\ test = "testing_trsm" /\ data.phase \in {"setup", "host"}
    /\ LET a     == [args EXCEPT !.mode = "device", !.query = FALSE]
           res   == rocblas_trsm(a)
           dXorB == trsm_result(a, data.dA, data.hB)
       IN  /\ args' = a
           /\ status' = res.status
           /\ expected' = "success"
           /\ steps' = res.steps
           /\ written' = res.written
           /\ data' = [data EXCEPT !.phase = "repeat", !.dXorB = dXorB,
                                   !.hXorB_1 = dXorB, !.unit_check = "none",
                                   !.dev = 0, !.runs = 0]
           /\ UNCHANGED <<test, routine>>

\* The next device: a handle and buffers of its own, A loaded from hA.
TestingTrsmRepeatDevice ==
    /\ test = "testing_trsm" /\ data.phase = "repeat" /\ data.dev < MaxDevices
    /\ data' = [data EXCEPT !.dev = data.dev + 1, !.runs = 0,
                            !.dA_copy = data.hA, !.dXorB_copy = Empty,
                            !.hXorB_copy = Empty]
    /\ UNCHANGED <<test, routine, args, status, expected, steps, written>>

\* A run that solves on what the run before left in dXorB_copy.
TestingTrsmRepeatRun_no_reload ==
    /\ test = "testing_trsm" /\ data.phase = "repeat"
    /\ data.dev >= 1 /\ data.runs < MaxRuns
    /\ LET res   == rocblas_trsm(args)
           B     == IF data.runs = 0 THEN data.hB ELSE data.dXorB_copy
           dXorB == trsm_result(args, data.dA_copy, B)
       IN  /\ status' = res.status
           /\ steps' = res.steps
           /\ written' = res.written
           /\ data' = [data EXCEPT !.runs = data.runs + 1,
                                   !.dXorB_copy = dXorB, !.hXorB_copy = dXorB,
                                   !.unit_check =
                                       unit_check_general(data.hXorB_1, dXorB)]
           /\ UNCHANGED <<test, routine, args, expected>>

\* One run on the current device: B loaded from hB, the solve, the result
\* compared with hXorB_1.
TestingTrsmRepeatRun ==
    /\ test = "testing_trsm" /\ data.phase = "repeat"
    /\ data.dev >= 1 /\ data.runs < MaxRuns
    /\ LET res   == rocblas_trsm(args)
           dXorB == trsm_result(args, data.dA_copy, data.hB)
       IN  /\ status' = res.status
           /\ steps' = res.steps
           /\ written' = res.written
           /\ data' = [data EXCEPT !.runs = data.runs + 1,
                                   !.dXorB_copy = dXorB, !.hXorB_copy = dXorB,
                                   !.unit_check =
                                       unit_check_general(data.hXorB_1, dXorB)]
           /\ UNCHANGED <<test, routine, args, expected>>

NextRepeat ==
    \/ TestingTrsmSetup
    \/ TestingTrsmHost
    \/ TestingTrsmRepeatability
    \/ TestingTrsmRepeatDevice
    \/ TestingTrsmRepeatRun
    \/ Return

SpecRepeat == Init /\ [][NextRepeat]_vars

(***************************************************************************)
(* Streams.  Every handle has a stream of its own: what the test issues is *)
(* appended to the stream, and the device runs the operations of a stream  *)
(* from its head, whatever the other streams do.  alpha_d is the set of    *)
(* values written to the device scalar: while it is empty, a read gives    *)
(* any value.                                                              *)
(***************************************************************************)
MaxStreams == 2

Streams == 1 .. MaxStreams

\* The operations issued with the solve issued before the copy of alpha.
testing_trsm_stream_script_solve_first ==
    <<"load_B", "solve_device", "copy_alpha", "load_B">> \o [i \in 1 .. MaxRuns |-> "solve_host"]

\* The operations testing_trsm issues on the stream of its handle: the
\* device pointer mode solve after the load of B and the copy of alpha, then
\* the timed host pointer mode solves, back to back on one load of B.
testing_trsm_stream_script ==
    <<"load_B", "copy_alpha", "solve_device", "load_B">> \o [i \in 1 .. MaxRuns |-> "solve_host"]

\* The buffers of a stream after operation op, a solve in device pointer
\* mode reading the value alpha_read at alpha_d.
ApplyOp(a, d, st, op, alpha_read) ==
    CASE op = "load_B" -> [st EXCEPT !.dXorB = d.hB]
      [] op = "copy_alpha" -> [st EXCEPT !.alpha_d = {d.alpha_h}]
      [] op = "solve_device" ->
           [st EXCEPT !.dXorB = rocblas_trsm_solve(a, alpha_read, st.dA, st.dXorB),
                      !.read = st.read \cup {alpha_read}]
      [] op = "solve_host" ->
           [st EXCEPT !.dXorB = rocblas_trsm_solve(a, d.alpha_h, st.dA, st.dXorB)]

StreamSetup ==
    /\ Idle
    /\ \E sd \in ArgSides, ul \in ArgFills, al \in Alphas \ {0} :
         LET m == MaxSolveDim
             K == K_of(sd, m, m)
             a == [NoArgs EXCEPT !.handle = "valid", !.mode = "device",
                                 !.side = sd, !.uplo = ul,
                                 !.transA = "none", !.diag = "unit",
                                 !.M = m, !.N = m, !.lda = K, !.ldb = m,
                                 !.alpha = "ptr", !.alpha_val = al,
                                 !.A = "ptr", !.B = "ptr"]
             hA == CHOOSE A \in MemberA(K, "unit") : TRUE
             hX == CHOOSE X \in MemberX(m, m) : TRUE
         IN  \E r \in Reciprocal(al) :
                /\ test' = "testing_trsm"
                /\ routine' = "trsm"
                /\ args' = a
                /\ data' = [phase |-> "stream", alpha_h |-> al, hA |-> hA,
                            hB |-> ref_trmm(a, r, hA, hX),
                            streams |-> [s \in Streams |->
                                           [pc |-> 0, queue |-> <<>>, dA |-> hA,
                                            dXorB |-> Empty, alpha_d |-> {},
                                            read |-> {}]]]
                /\ UNCHANGED <<status, expected, steps, written>>

\* The test issues its next operation on stream s; a solve returns its
\* status at once.
StreamIssue ==
    /\ test = "testing_trsm" /\ data.phase = "stream"
    /\ \E s \in Streams :
         LET st == data.streams[s]
         IN  /\ st.pc < Len(testing_trsm_stream_script)
             /\ LET op  == testing_trsm_stream_script[st.pc + 1]
                    res == rocblas_trsm(args)
                IN  /\ data' = [data EXCEPT !.streams[s].pc = st.pc + 1,
                                            !.streams[s].queue = Append(st.queue, op)]
                    /\ IF op \in {"solve_device", "solve_host"}
                       THEN /\ status' = res.status
                            /\ expected' = "success"
                            /\ steps' = res.steps
                            /\ written' = res.written
                       ELSE UNCHANGED <<status, expected, steps, written>>
    /\ UNCHANGED <<test, routine, args>>

\* The device runs the operation at the head of stream s.
StreamExecute ==
    /\ test = "testing_trsm" /\ data.phase = "stream"
    /\ \E s \in Streams :
         LET st == data.streams[s]
         IN  /\ st.queue # <<>>
             /\ \E alpha_read \in IF st.alpha_d = {} THEN Alphas ELSE st.alpha_d :
                  data' = [data EXCEPT
                             !.streams[s] =
                                 ApplyOp(args, data, [st EXCEPT !.queue = Tail(st.queue)],
                                         Head(st.queue), alpha_read)]
    /\ UNCHANGED <<test, routine, args, status, expected, steps, written>>

NextStream ==
    \/ StreamSetup
    \/ StreamIssue
    \/ StreamExecute
    \/ Return

SpecStream == Init /\ [][NextStream]_vars

(***************************************************************************)
(* Calls of hbmv whose implementation may throw during any of its steps.   *)
(***************************************************************************)
HbmvThrows ==
    /\ Idle
    /\ \E a \in ApiHbmvArgs, lg \in BOOLEAN, e \in HbmvEnv, kind \in Exceptions \cup {"none"} :
         LET b == [a EXCEPT !.logging = lg]
         IN  \E at \in IF kind = "none" THEN {0}
                       ELSE 1 .. Len(rocblas_hbmv_impl(b, e).steps) :
                LET thrown == [kind |-> kind, at |-> at]
                    res    == rocblas_hbmv(b, e, thrown)
                IN  /\ test' = "client"
                    /\ routine' = "hbmv"
                    /\ args' = b
                    /\ status' = res.status
                    /\ expected' = "none"
                    /\ steps' = res.steps
                    /\ written' = res.written
                    /\ data' = [phase |-> "exception", thrown |-> thrown]

NextException ==
    \/ HbmvThrows
    \/ Return

SpecException == Init /\ [][NextException]_vars

(***************************************************************************)
(* The inversions of one batch member in testing_trsm_batched_ex: which    *)
(* diagonal block of A each rocblas_trtri_strided_batched call reads and   *)
(* where in invA it writes the inverse.  Offsets count elements.           *)
(***************************************************************************)
MaxK == MaxBlocks * TRSM_BLOCK + 1

\* A stride of invA one column too long.
testing_trsm_batched_ex_stride_invA_wide == TRSM_BLOCK * TRSM_BLOCK + TRSM_BLOCK

testing_trsm_batched_ex_stride_invA == TRSM_BLOCK * TRSM_BLOCK

testing_trsm_batched_ex_stride_A(lda) == TRSM_BLOCK * lda + TRSM_BLOCK

\* The inversions without the one of the partial block.
testing_trsm_batched_ex_inversions_full_only(K, lda) ==
    { [i |-> i, n |-> TRSM_BLOCK, partial |-> FALSE,
       A_offset |-> testing_trsm_batched_ex_stride_A(lda) * i,
       invA_offset |-> testing_trsm_batched_ex_stride_invA * i] :
        i \in 0 .. K \div TRSM_BLOCK - 1 }

\* The blocks inverted: blocks = K / TRSM_BLOCK full ones by the first call,
\* the partial one by the second call when K % TRSM_BLOCK != 0 or
\* blocks == 0.
testing_trsm_batched_ex_inversions(K, lda) ==
    LET blocks == K \div TRSM_BLOCK
    IN  { [i |-> i, n |-> TRSM_BLOCK, partial |-> FALSE,
           A_offset |-> testing_trsm_batched_ex_stride_A(lda) * i,
           invA_offset |-> testing_trsm_batched_ex_stride_invA * i] :
            i \in 0 .. blocks - 1 }
        \cup (IF K % TRSM_BLOCK # 0 \/ blocks = 0
              THEN { [i |-> blocks, n |-> K - TRSM_BLOCK * blocks, partial |-> TRUE,
                      A_offset |-> testing_trsm_batched_ex_stride_A(lda) * blocks,
                      invA_offset |-> testing_trsm_batched_ex_stride_invA * blocks] }
              ELSE {})

\* The inversions of a member for a K and an lda the test accepts.
TestingTrsmBatchedExTrtri ==
    /\ Idle
    /\ \E sd \in ArgSides, K \in 0 .. MaxK, pad \in {0, 1} :
         /\ test' = "testing_trsm_batched_ex"
         /\ routine' = "trtri_strided_batched"
         /\ args' = [NoArgs EXCEPT !.handle = "valid", !.side = sd,
                                   !.uplo = "upper", !.diag = "non_unit",
                                   !.M = IF sd = "left" THEN K ELSE 1,
                                   !.N = IF sd = "left" THEN 1 ELSE K,
                                   !.lda = K + pad,
                                   !.ldb = IF sd = "left" THEN K ELSE 1]
         /\ status' = "success"
         /\ data' = [phase |-> "trtri", K |-> K, lda |-> K + pad,
                     size_A |-> (K + pad) * K, size_invA |-> TRSM_BLOCK * K,
                     inversions |-> testing_trsm_batched_ex_inversions(K, K + pad)]
         /\ UNCHANGED <<expected, steps, written>>

NextBlocks ==
    \/ TestingTrsmBatchedExTrtri
    \/ Return

SpecBlocks == Init /\ [][NextBlocks]_vars

(***************************************************************************)
(* The checks of the solve tests on the results of their two calls, the    *)
(* first in host pointer mode (hXorB_1, hx_or_b_1), the second in device   *)
(* pointer mode (hXorB_2, hx_or_b_2).  Values are counted in units of eps; *)
(* a result is the exact X with an error added to its first element.       *)
(***************************************************************************)
ERROR_EPS_MULTIPLIER == 40
RESIDUAL_EPS_MULTIPLIER == 40
error_eps_multiplier == 40

rocblas_abs(v) == IF v < 0 THEN 0 - v ELSE v

\* The largest column sum of |X - Y|.
matrix_norm_1(M, N, X, Y) ==
    LET col == [j \in 1 .. N |->
                  Sum([i \in 1 .. M |-> rocblas_abs(X[<<i, j>>] - Y[<<i, j>>])], 1 .. M)]
    IN  IF N = 0 THEN 0
        ELSE CHOOSE v \in {col[j] : j \in 1 .. N} : \A j \in 1 .. N : col[j] <= v

vector_norm_1(N, x, y) == matrix_norm_1(N, 1, x, y)

\* trsm_err_res_check: the error is within multiplier * eps * M.
trsm_err_res_check(max_error, M, multiplier) == max_error <= multiplier * M

\* cblas_trmv: op(A) * x.
cblas_trmv(a, A, x) == ref_trmm([a EXCEPT !.side = "left", !.M = a.N, !.N = 1], 1, A, x)

\* The errors a call may leave in the first element of a member's result.
ResultErrors ==
    {0, ERROR_EPS_MULTIPLIER * MaxSolveDim, ERROR_EPS_MULTIPLIER * MaxSolveDim + 1}

\* The errors the model lets the call in host pointer mode leave: none, or
\* one out of tolerance.
HostErrors == {0, ERROR_EPS_MULTIPLIER * MaxSolveDim + 1}

WithError(X, e) == [X EXCEPT ![<<1, 1>>] = X[<<1, 1>>] + e]

\* One check: the member, the host copy its error was computed from, what
\* it measures and whether it passed.
Check(b, of, kind, pass) == [b |-> b, of |-> of, kind |-> kind, pass |-> pass]

\* testing_tpsv_strided_batched after its two calls returned success.
TestingTpsvStridedBatchedResults ==
    /\ Idle
    /\ \E ul \in ArgFills, dg \in ArgDiagonals, bc \in 1 .. MaxMembers :
         LET n == MaxSolveDim
             a == [NoArgs EXCEPT !.handle = "valid", !.mode = "device",
                                 !.uplo = ul, !.transA = "none", !.diag = dg,
                                 !.N = n, !.incx = 1, !.batch_count = bc,
                                 !.A = "ptr", !.x = "ptr"]
         IN  \E A \in MemberA(n, dg), X \in MemberX(n, 1),
                e1 \in [1 .. bc -> HostErrors], e2 \in [1 .. bc -> ResultErrors] :
                /\ test' = "testing_tpsv_strided_batched"
                /\ routine' = "tpsv_strided_batched"
                /\ args' = a
                /\ status' = "success"
                /\ expected' = "success"
                /\ data' = [phase |-> "results", b |-> 1,
                            hA |-> [b \in 1 .. bc |-> A],
                            hX |-> [b \in 1 .. bc |-> X],
                            hB |-> [b \in 1 .. bc |-> cblas_trmv(a, A, X)],
                            hXorB_1 |-> [b \in 1 .. bc |-> WithError(X, e1[b])],
                            hXorB_2 |-> [b \in 1 .. bc |-> WithError(X, e2[b])],
                            X_1 |-> [b \in 1 .. bc |-> WithError(X, e1[b])],
                            X_2 |-> [b \in 1 .. bc |-> WithError(X, e2[b])],
                            checks |-> {}]
                /\ UNCHANGED <<steps, written>>

\* One pass of the forward error loop of testing_tpsv_strided_batched.
testing_tpsv_strided_batched_forward(a, d, b) ==
    LET max_err_1 == vector_norm_1(a.N, d.hX[b], d.hXorB_1[b])
        max_err_2 == vector_norm_1(a.N, d.hX[b], d.hXorB_2[b])
    IN  { Check(b, 1, "forward", trsm_err_res_check(max_err_1, a.N, error_eps_multiplier)),
          Check(b, 2, "forward", trsm_err_res_check(max_err_2, a.N, error_eps_multiplier)) }

TestingTpsvStridedBatchedForward ==
    /\ test = "testing_tpsv_strided_batched" /\ data.phase = "results"
    /\ data' = [data EXCEPT
                  !.checks = @ \cup testing_tpsv_strided_batched_forward(args, data, data.b),
                  !.b = IF data.b = args.batch_count THEN 1 ELSE data.b + 1,
                  !.phase = IF data.b = args.batch_count THEN "trmv" ELSE "results"]
    /\ UNCHANGED <<test, routine, args, status, expected, steps, written>>

\* The loop that multiplies both results of every member by A.
TestingTpsvStridedBatchedTrmv ==
    /\ test = "testing_tpsv_strided_batched" /\ data.phase = "trmv"
    /\ data' = [data EXCEPT
                  !.hXorB_1 = [b \in Members(args) |->
                                 cblas_trmv(args, data.hA[b], data.hXorB_1[b])],
                  !.hXorB_2 = [b \in Members(args) |->
                                 cblas_trmv(args, data.hA[b], data.hXorB_2[b])],
                  !.phase = "residual"]
    /\ UNCHANGED <<test, routine, args, status, expected, steps, written>>

\* One pass of the residual loop of testing_tpsv_strided_batched: both
\* errors are computed from hx_or_b_1.
testing_tpsv_strided_batched_residual(a, d, b) ==
    LET max_err_1 == vector_norm_1(a.N, d.hXorB_1[b], d.hB[b])
        max_err_2 == vector_norm_1(a.N, d.hXorB_1[b], d.hB[b])
    IN  { Check(b, 1, "residual", trsm_err_res_check(max_err_1, a.N, error_eps_multiplier)),
          Check(b, 1, "residual", trsm_err_res_check(max_err_2, a.N, error_eps_multiplier)) }

TestingTpsvStridedBatchedResidual ==
    /\ test = "testing_tpsv_strided_batched" /\ data.phase = "residual"
    /\ data' = [data EXCEPT
                  !.checks = @ \cup testing_tpsv_strided_batched_residual(args, data, data.b),
                  !.b = IF data.b = args.batch_count THEN 1 ELSE data.b + 1,
                  !.phase = IF data.b = args.batch_count THEN "checked" ELSE "residual"]
    /\ UNCHANGED <<test, routine, args, status, expected, steps, written>>

\* testing_trsm_batched_ex after its two calls returned success.
TestingTrsmBatchedExResults ==
    /\ Idle
    /\ \E ul \in ArgFills, dg \in ArgDiagonals, al \in Alphas \ {0},
          bc \in 1 .. MaxMembers :
         LET m == MaxSolveDim
             a == [NoArgs EXCEPT !.handle = "valid", !.mode = "device",
                                 !.side = "left", !.uplo = ul,
                                 !.transA = "none", !.diag = dg,
                                 !.M = m, !.N = m, !.lda = m, !.ldb = m,
                                 !.batch_count = bc,
                                 !.alpha = "ptr", !.alpha_val = al,
                                 !.A = "ptr", !.B = "ptr"]
         IN  \E A \in MemberA(m, dg), X \in MemberX(m, m), r \in Reciprocal(al),
                e1 \in [1 .. bc -> HostErrors], e2 \in [1 .. bc -> ResultErrors] :
                /\ test' = "testing_trsm_batched_ex"
                /\ routine' = "trsm_batched_ex"
                /\ args' = a
                /\ status' = "success"
                /\ expected' = "success"
                /\ data' = [phase |-> "results", b |-> 1,
                            hA |-> [b \in 1 .. bc |-> A],
                            hX |-> [b \in 1 .. bc |-> X],
                            hB |-> [b \in 1 .. bc |-> ref_trmm(a, r, A, X)],
                            hXorB_1 |-> [b \in 1 .. bc |-> WithError(X, e1[b])],
                            hXorB_2 |-> [b \in 1 .. bc |-> WithError(X, e2[b])],
                            X_1 |-> [b \in 1 .. bc |-> WithError(X, e1[b])],
                            X_2 |-> [b \in 1 .. bc |-> WithError(X, e2[b])],
                            checks |-> {}]
                /\ UNCHANGED <<steps, written>>

\* One pass of the check loop of testing_trsm_batched_ex: the forward
\* errors, the products with A, the residuals.
testing_trsm_batched_ex_checks(a, d, b) ==
    LET r     == CHOOSE r \in Reciprocal(a.alpha_val) : TRUE
        err_1 == matrix_norm_1(a.M, a.N, d.hX[b], d.hXorB_1[b])
        err_2 == matrix_norm_1(a.M, a.N, d.hX[b], d.hXorB_2[b])
        AX_1  == ref_trmm(a, r, d.hA[b], d.hXorB_1[b])
        AX_2  == ref_trmm(a, r, d.hA[b], d.hXorB_2[b])
        res_1 == matrix_norm_1(a.M, a.N, AX_1, d.hB[b])
        res_2 == matrix_norm_1(a.M, a.N, AX_2, d.hB[b])
    IN  [hXorB_1 |-> AX_1, hXorB_2 |-> AX_2,
         checks |->
           { Check(b, 1, "forward", trsm_err_res_check(err_1, a.M, ERROR_EPS_MULTIPLIER)),
             Check(b, 2, "forward", trsm_err_res_check(err_2, a.M, ERROR_EPS_MULTIPLIER)),
             Check(b, 1, "residual", trsm_err_res_check(res_1, a.M, RESIDUAL_EPS_MULTIPLIER)),
             Check(b, 2, "residual", trsm_err_res_check(res_2, a.M, RESIDUAL_EPS_MULTIPLIER)) }]

TestingTrsmBatchedExCheck ==
    /\ test = "testing_trsm_batched_ex" /\ data.phase = "results"
    /\ LET c == testing_trsm_batched_ex_checks(args, data, data.b)
       IN  data' = [data EXCEPT
                      !.checks = @ \cup c.checks,
                      !.hXorB_1[data.b] = c.hXorB_1,
                      !.hXorB_2[data.b] = c.hXorB_2,
                      !.b = IF data.b = args.batch_count THEN 1 ELSE data.b + 1,
                      !.phase = IF data.b = args.batch_count
                                THEN "checked" ELSE "results"]
    /\ UNCHANGED <<test, routine, args, status, expected, steps, written>>

NextChecks ==
    \/ TestingTpsvStridedBatchedResults
    \/ TestingTpsvStridedBatchedForward
    \/ TestingTpsvStridedBatchedTrmv
    \/ TestingTpsvStridedBatchedResidual
    \/ TestingTrsmBatchedExResults
    \/ TestingTrsmBatchedExCheck
    \/ Return

SpecChecks == Init /\ [][NextChecks]_vars

(***************************************************************************)
(* Vocabulary of the properties: the case a call falls in.                 *)
(***************************************************************************)
Called == status # "none"

TrsmFamily == {"trsm", "trsm_batched_ex", "trmm_outofplace_batched"}
BatchedRoutines == {"trsm_batched_ex", "trmm_outofplace_batched", "tpsv_strided_batched"}
SolveRoutines == {"trsm", "trsm_batched_ex"}

ValidHandle == args.handle = "valid"

IllegalEnumerator ==
    \/ args.side = "both"
    \/ args.uplo \in {"full", "both"}
    \/ args.transA = "both"
    \/ args.diag = "both"

\* The size checks of the trsm family as the specification lists them.
TrsmSizeInvalid ==
    \/ args.M < 0 \/ args.N < 0
    \/ args.lda < K_of(args.side, args.M, args.N)
    \/ args.ldb < args.M
    \/ routine = "trmm_outofplace_batched" /\ args.ldc < args.M
    \/ routine \in BatchedRoutines /\ args.batch_count < 0

\* The size checks of each routine.
SizeInvalid ==
    CASE routine \in TrsmFamily -> TrsmSizeInvalid
      [] routine = "tpsv_strided_batched" ->
            args.N < 0 \/ args.incx = 0 \/ args.batch_count < 0
      [] routine = "spmv" -> args.N < 0 \/ args.incx = 0 \/ args.incy = 0
      [] routine = "hbmv" ->
            args.N < 0 \/ args.k < 0 \/ args.lda <= args.k
            \/ args.incx = 0 \/ args.incy = 0
      [] OTHER -> FALSE

\* The call qualifies for a quick return.
QuickReturn ==
    CASE routine \in TrsmFamily ->
            args.M = 0 \/ args.N = 0
            \/ (routine \in BatchedRoutines /\ args.batch_count = 0)
      [] routine = "tpsv_strided_batched" -> args.N = 0 \/ args.batch_count = 0
      [] routine \in {"spmv", "hbmv"} -> args.N = 0
      [] OTHER -> FALSE

\* A call of the trsm family past the handle, enumerator and size checks and
\* with nothing to quick-return on.
TrsmWork ==
    /\ Called /\ routine \in TrsmFamily
    /\ ValidHandle /\ ~IllegalEnumerator /\ ~TrsmSizeInvalid
    /\ args.M > 0 /\ args.N > 0 /\ args.batch_count > 0

Asserted(x) == expected \in {"none", x}

(***************************************************************************)
(* Properties                                                              *)
(***************************************************************************)

\* C1: in trsm, trmm_outofplace_batched, tpsv_strided_batched, spmv and hbmv
\* a call with a null handle returns invalid_handle whatever the other
\* arguments are; no later check is reached and the tests assert that status.
C1_NullHandleFirst ==
    (/\ Called
     /\ routine \in {"trsm", "trmm_outofplace_batched", "tpsv_strided_batched",
                     "spmv", "hbmv"}
     /\ args.handle = "null")
    => /\ status = "invalid_handle"
       /\ steps = <<>>
       /\ Asserted("invalid_handle")

\* C1 witness: hbmv called with a null handle, an illegal uplo, a negative
\* N and null pointers returned invalid_handle.
C1_Witness ==
    /\ routine = "hbmv" /\ args.handle = "null"
    /\ args.uplo = "full" /\ args.N < 0 /\ args.alpha = "null" /\ args.y = "null"
    /\ status = "invalid_handle"

\* C2 (as stated): a call with an illegal side, uplo, transA or diag returns
\* invalid_value regardless of the values of all other arguments.
C2_AsStated == (Called /\ IllegalEnumerator) => status = "invalid_value"

\* C2 (amended): a call with a non-null handle (for hbmv: one that is not a
\* device-memory-size query) and an illegal side, uplo, transA or diag returns
\* invalid_value regardless of the values of all other arguments.
C2_IllegalEnumerator ==
    (Called /\ ValidHandle /\ ~args.query /\ IllegalEnumerator)
    => status = "invalid_value" /\ Asserted("invalid_value")

\* C2 witness: hbmv with a valid handle, uplo = full, a negative N and null
\* pointers returned invalid_value.
C2_Witness ==
    /\ routine = "hbmv" /\ ValidHandle /\ ~args.query
    /\ args.uplo = "full" /\ args.N < 0 /\ args.alpha = "null"
    /\ status = "invalid_value"

\* C3 (as stated): with a valid handle and legal enumerators a call of the
\* trsm family returns invalid_size whenever M < 0, N < 0, lda < K, ldb < M
\* or, for a batched routine, batch_count < 0; the tests assert it.
C3_AsStated ==
    (/\ Called /\ routine \in TrsmFamily
     /\ ValidHandle /\ ~IllegalEnumerator /\ TrsmSizeInvalid)
    => status = "invalid_size" /\ Asserted("invalid_size")

\* C4 (as stated): the checks run in the order handle, enumerators, sizes,
\* quick return, pointers and the first failing check gives the status; a
\* call with a valid handle, legal enumerators, an invalid size and null
\* alpha, A and B returns invalid_size, never invalid_pointer.
C4_AsStated ==
    (Called /\ ~args.query) =>
        /\ ~ValidHandle => status = "invalid_handle"
        /\ (ValidHandle /\ IllegalEnumerator) => status = "invalid_value"
        /\ (ValidHandle /\ ~IllegalEnumerator /\ SizeInvalid)
              => status = "invalid_size"
        /\ (ValidHandle /\ ~IllegalEnumerator /\ ~SizeInvalid /\ QuickReturn)
              => status = "success"
        /\ status = "invalid_pointer"
              => ValidHandle /\ ~IllegalEnumerator /\ ~SizeInvalid /\ ~QuickReturn

\* C5 (as stated): every call of the trsm family with M = 0 or N = 0 returns
\* success and writes no buffer.
C5_AsStated ==
    (Called /\ routine \in TrsmFamily /\ (args.M = 0 \/ args.N = 0))
    => status = "success" /\ written = {}

\* C5 (amended): a call of the trsm family with a valid handle, legal
\* enumerators and sizes that pass the size checks, and with M = 0 or N = 0,
\* returns success whatever alpha, A, B and C are, and writes no buffer.
C5_QuickReturn ==
    (/\ Called /\ routine \in TrsmFamily
     /\ ValidHandle /\ ~IllegalEnumerator /\ ~TrsmSizeInvalid
     /\ (args.M = 0 \/ args.N = 0))
    => status = "success" /\ written = {} /\ Asserted("success")

\* C5 witness: trsm with M = 0 and alpha, A and B null returned success.
C5_Witness ==
    /\ routine = "trsm" /\ args.M = 0 /\ args.N > 0
    /\ args.alpha = "null" /\ args.A = "null" /\ args.B = "null"
    /\ status = "success" /\ written = {}

\* C6 (as stated): a call that qualifies for a quick return (M = 0, N = 0,
\* or batch_count = 0 in a batched routine) and also has an invalid size
\* returns invalid_size, not success, even with all pointers null.
C6_AsStated ==
    (/\ Called /\ ValidHandle /\ ~args.query /\ ~IllegalEnumerator
     /\ QuickReturn /\ SizeInvalid)
    => status = "invalid_size" /\ Asserted("invalid_size")

C8_NullPointers ==
    (/\ TrsmWork
     /\ \/ args.alpha = "null"
        \/ args.B = "null"
        \/ routine = "trmm_outofplace_batched" /\ args.C = "null"
        \/ args.mode = "host" /\ args.alpha_val # 0 /\ args.A = "null")
    => status = "invalid_pointer" /\ written = {} /\ Asserted("invalid_pointer")

\* C8 witness: trsm in device pointer mode with alpha and A given and B null
\* returned invalid_pointer.
C8_Witness ==
    /\ TrsmWork /\ routine = "trsm" /\ args.mode = "device"
    /\ args.alpha = "ptr" /\ args.A = "ptr" /\ args.B = "null"
    /\ status = "invalid_pointer"

\* C9 (as stated): in a solve call past the checks with M > 0, N > 0 and
\* alpha = 0, A and the result pointer B may be null and the call returns
\* success.
C9_AsStated ==
    (/\ TrsmWork /\ routine \in SolveRoutines
     /\ args.alpha = "ptr" /\ args.alpha_val = 0)
    => status = "success"

\* C9 (amended): in a solve call past the checks with M > 0, N > 0, alpha = 0
\* and a non-null result pointer B, A may be null and the call returns
\* success, in host and in device pointer mode.
C9_ZeroAlpha ==
    (/\ TrsmWork /\ routine \in SolveRoutines
     /\ args.alpha = "ptr" /\ args.alpha_val = 0
     /\ args.B = "ptr")
    => status = "success" /\ Asserted("success")

\* C9 witness: trsm in device pointer mode with alpha = 0 and A null
\* returned success.
C9_Witness ==
    /\ TrsmWork /\ routine = "trsm" /\ args.mode = "device"
    /\ args.alpha = "ptr" /\ args.alpha_val = 0
    /\ args.A = "null" /\ args.B = "ptr"
    /\ status = "success"

\* C10: after a solve call with alpha = 0 and valid M > 0, N > 0, in host
\* and in device pointer mode, every element of the M x N result in B is 0
\* whatever A and B held before; the check of testing_trsm against a zeroed
\* hX passes.
C10_ZeroAlphaZeroResult ==
    (/\ Called /\ routine = "trsm" /\ data.phase \in {"host", "device", "client"}
     /\ args.alpha_val = 0 /\ args.M > 0 /\ args.N > 0)
    => /\ status = "success"
       /\ DOMAIN data.dXorB = Cells(args.M, args.N)
       /\ IsZero(data.dXorB)
       /\ test = "testing_trsm" => data.unit_check = "pass" /\ IsZero(data.hX)

\* C10 witness: testing_trsm ran the solve in device pointer mode with
\* alpha = 0 on a B of non-zero elements, and B is all zeros.
C10_Witness ==
    /\ test = "testing_trsm" /\ data.phase = "device"
    /\ args.mode = "device" /\ args.alpha_val = 0
    /\ args.M = MaxSolveDim /\ args.N = MaxSolveDim
    /\ \A ij \in DOMAIN data.hB : data.hB[ij] # 0
    /\ IsZero(data.dXorB) /\ data.unit_check = "pass"

\* Values a device-resident alpha may hold.
AlphaValues == {0, 1, 2}

\* A pointer other than A that the routine requires is null.
OtherPointerNull ==
    \/ args.alpha = "null"
    \/ routine \in TrsmFamily /\ args.B = "null"
    \/ routine = "trmm_outofplace_batched" /\ args.C = "null"
    \/ routine \in {"spmv", "hbmv"} /\ args.beta = "null"

\* C11: in device pointer mode the validator returns the same status
\* whatever value the device-resident alpha holds, so a null A is never
\* rejected because alpha is non-zero; the tests assert invalid_pointer for a
\* null A in host pointer mode only.
C11_DeviceAlphaUnread ==
    (/\ Called /\ routine \in TrsmFamily \cup {"spmv", "hbmv"}
     /\ ValidHandle /\ ~args.query
     /\ args.mode = "device" /\ args.alpha = "ptr")
    => /\ \A v \in AlphaValues :
            Validator(routine, [args EXCEPT !.alpha_val = v])
               = Validator(routine, args)
       /\ (args.A = "null" /\ ~OtherPointerNull)
            => status # "invalid_pointer" /\ expected # "invalid_pointer"

\* C11 witness: trsm in device pointer mode with alpha = 1 on the device and
\* a null A returned success.
C11_Witness ==
    /\ TrsmWork /\ routine = "trsm" /\ args.mode = "device"
    /\ args.alpha = "ptr" /\ args.alpha_val = 1
    /\ args.A = "null" /\ args.B = "ptr"
    /\ status = "success"

\* C12: for every side, M, N >= 0 and batch_count, and every M' <= M and
\* N' <= N with the same batch_count, each of the exact sizes x_tmp, invA and
\* x_tmp_backup is at most the corresponding maximum size, for any transA;
\* the assertion of the sweep of testing_trsm_internal_interfaces passes.
C12_WorkspaceDominated ==
    (routine = "trsm_workspace_size") =>
        /\ data.smaller[1] <= args.M /\ data.smaller[2] <= args.N
        /\ data.sizes.x_tmp <= data.max.x_tmp
        /\ data.sizes.invA <= data.max.invA
        /\ data.sizes.x_tmp_backup <= data.max.x_tmp_backup
        /\ data.phase = "sweep" => data.check = "pass"

\* C12 witness: the sweep asked the exact sizes of a problem one block
\* smaller than (M, N) in both dimensions, and they need strictly less.
C12_Witness ==
    /\ routine = "trsm_workspace_size" /\ data.phase = "sweep"
    /\ data.smaller[1] + TRSM_BLOCK <= args.M
    /\ data.smaller[2] + TRSM_BLOCK <= args.N
    /\ data.sizes.x_tmp < data.max.x_tmp /\ data.sizes.invA < data.max.invA
    /\ data.check = "pass"

ValidationFailures ==
    {"invalid_handle", "invalid_value", "invalid_size", "invalid_pointer"}

\* What the call in the state may meet in the functions it calls.
EnvOf(r) == IF r = "hbmv" THEN HbmvEnv ELSE {NoEnv}

\* C13: a call whose validation fails launches no kernel, runs no numerics
\* check and writes no matrix or vector, and the same arguments validated
\* again give the same status.
C13_FailedValidationNoEffect ==
    (Called /\ routine \in Routines /\ status \in ValidationFailures)
    => /\ written = {}
       /\ \A i \in DOMAIN steps : steps[i] \in {"log", "arg_check"}
       /\ \A e \in EnvOf(routine) :
            /\ Call(routine, args, e).status = status
            /\ Call(routine, args, e).written = {}

\* C13 witness: hbmv with logging and numerics checking on returned
\* invalid_pointer after the argument check and went no further.
C13_Witness ==
    /\ routine = "hbmv" /\ args.logging /\ args.check_numerics
    /\ status = "invalid_pointer"
    /\ steps = <<"log", "arg_check">> /\ written = {}

\* C14: a call made during a size query launches no kernel and changes
\* none of A, B, x, y; the query reports the bytes the call asked for; the
\* same call after the query computes as usual.
C14_SizeQueryNoComputation ==
    /\ (data.phase = "query")
       => /\ args.query
          /\ written = {}
          /\ \A i \in DOMAIN steps : steps[i] \notin {"kernel", "launcher"}
          /\ routine = "trsm"
             => /\ data.dXorB = data.hB /\ data.dA = data.hA
                /\ data.size = IF "size_query" \in {steps[i] : i \in DOMAIN steps}
                                THEN rocblas_trsm_device_memory_size(args) ELSE 0
          /\ routine = "hbmv" => status = "size_unchanged" /\ data.size = 0
    /\ (data.queried /\ data.phase # "query")
       => /\ ~args.query
          /\ \E e \in EnvOf(routine) :
               /\ Call(routine, args, e).status = status
               /\ Call(routine, args, e).steps = steps
               /\ Call(routine, args, e).written = written
          /\ (routine = "trsm" /\ args.M > 0 /\ args.N > 0)
             => /\ status = "success" /\ written = {"B"}
                /\ data.unit_check = "pass"
          /\ (routine = "hbmv" /\ status = "success"
                /\ "launcher" \in {steps[i] : i \in DOMAIN steps})
             => written = {"y"}

C14_Witness ==
    /\ routine = "trsm" /\ data.phase = "host" /\ data.queried
    /\ args.M = 2 /\ args.N = 2 /\ data.size > 0 /\ written = {"B"}
    /\ data.dXorB # data.hB

\* C15: a call starts in VALIDATE and ends in one of REJECT, QUICK_RETURN,
\* SIZE_QUERY and COMPUTE; a computing call goes through INVERT_BLOCKS,
\* SUBSTITUTE, DONE in that order, without INVERT_BLOCKS exactly when the
\* caller supplies invA; SUBSTITUTE starts only with every block inverse it
\* uses available.
IsPrefix(p, q) == Len(p) <= Len(q) /\ \A i \in 1 .. Len(p) : p[i] = q[i]

CallPaths(supplied) ==
    { <<"VALIDATE", "REJECT">>, <<"VALIDATE", "QUICK_RETURN">>,
      <<"VALIDATE", "SIZE_QUERY">>,
      IF supplied
      THEN <<"VALIDATE", "COMPUTE", "SUBSTITUTE", "DONE">>
      ELSE <<"VALIDATE", "COMPUTE", "INVERT_BLOCKS", "SUBSTITUTE", "DONE">> }

C15_CallStateMachine ==
    (routine = "trsm_batched_ex" /\ data.phase \in CallStates)
    => /\ data.trace # <<>> /\ data.trace[1] = "VALIDATE"
       /\ data.trace[Len(data.trace)] = data.phase
       /\ \E p \in CallPaths(data.supplied) : IsPrefix(data.trace, p)
       /\ data.phase \in {"SUBSTITUTE", "DONE"}
          => /\ BlocksUsed(args) \subseteq data.invA
             /\ ("INVERT_BLOCKS" \in {data.trace[i] : i \in DOMAIN data.trace})
                <=> ~data.supplied
       /\ Called <=> data.phase \in {"REJECT", "QUICK_RETURN", "SIZE_QUERY", "DONE"}
       /\ data.phase = "REJECT" => status \in ValidationFailures /\ written = {}
       /\ data.phase = "QUICK_RETURN" => status = "success" /\ written = {}
       /\ data.phase = "SIZE_QUERY" => args.query /\ written = {}
       /\ data.phase = "DONE" => status = "success" /\ written = {"B"}

C15_Witness ==
    /\ routine = "trsm_batched_ex" /\ data.phase = "SUBSTITUTE" /\ data.supplied
    /\ args.batch_count = 2 /\ args.side = "left" /\ args.M = TRSM_BLOCK + 1
    /\ data.invA = {<<0, 0>>, <<0, 1>>, <<1, 0>>, <<1, 1>>}
    /\ data.trace = <<"VALIDATE", "COMPUTE", "SUBSTITUTE">>

\* C16: no entry point returns continue; in rocblas_hbmv_impl a continue of
\* the argument check makes the call proceed, and the value returned is the
\* status of the argument check when that is not continue, otherwise the
\* failure of a numerics check or the status of the launcher.
HbmvProceeds(a) == a.handle = "valid" /\ ~a.query /\ rocblas_hbmv_arg_check(a) = "continue"

C16_ContinueInternal ==
    (Called /\ routine \in Routines)
    => /\ status # "continue"
       /\ (routine = "hbmv" /\ args.handle = "valid" /\ ~args.query)
          => IF rocblas_hbmv_arg_check(args) # "continue"
             THEN status = rocblas_hbmv_arg_check(args)
             ELSE /\ Len(steps) > Len(LogSteps(args)) + 1
                  /\ \E e \in HbmvEnv :
                       status = IF args.check_numerics /\ e.numerics_in # "success"
                                THEN e.numerics_in
                                ELSE IF args.check_numerics /\ e.launcher = "success"
                                        /\ e.numerics_out # "success"
                                THEN e.numerics_out
                                ELSE e.launcher
                  /\ status \in {"success", "check_numerics_fail", "internal_error"}
                  /\ ~args.check_numerics => status \in {"success", "internal_error"}

C16_Witness ==
    /\ routine = "hbmv" /\ HbmvProceeds(args) /\ args.check_numerics
    /\ status = "check_numerics_fail"
    /\ steps[Len(steps)] = "check_numerics_out"

C18_RoundTrip ==
    (test = "testing_trsm" /\ data.phase \in {"host", "device"} /\ data.alpha_h # 0)
    => /\ status = "success"
       /\ data.dXorB = data.hX
       /\ data.hXorB_1 = data.hB
       /\ data.unit_check = "pass"
       /\ \A r \in Reciprocal(data.alpha_h) :
            /\ ref_trmm(args, r, data.dA, data.dXorB) = data.hB
            /\ rocblas_trsm_solve(args, data.alpha_h, data.dA,
                                  ref_trmm(args, r, data.dA, data.hX)) = data.hX

C18_Witness ==
    /\ test = "testing_trsm" /\ data.phase = "device" /\ data.alpha_h = -1
    /\ args.side = "right" /\ args.uplo = "lower" /\ args.diag = "non_unit"
    /\ args.transA = "conjugate_transpose" /\ args.M = 2 /\ args.N = 2
    /\ data.dXorB = data.hX /\ data.hB # data.hX

\* C19: batch members are independent.  Whatever the order in which the
\* members are substituted, member i holds the solution of its own A[i] and
\* B[i] once it is done and its own B[i] before, and nothing of a member
\* j # i; so every interleaving ends in the same state.
C19_MembersIndependent ==
    (test = "testing_trsm_batched_ex" /\ data.phase \in {"substitute", "done"})
    => /\ \A b \in Members(args) :
            data.dXorB[b] = IF b \in data.done
                            THEN rocblas_trsm_solve(args, args.alpha_val,
                                                    data.hA[b], data.hB[b])
                            ELSE data.hB[b]
       /\ data.dA = data.hA
       /\ data.phase = "done"
          => /\ data.done = Members(args)
             /\ status = "success" /\ written = {"B"}
             /\ data.dXorB = data.hX

C19_Witness ==
    /\ test = "testing_trsm_batched_ex" /\ data.phase = "substitute"
    /\ args.batch_count = 2 /\ data.done = {2}
    /\ data.hA[1] # data.hA[2] /\ data.hB[1] # data.hB[2]
    /\ data.dXorB[2] = data.hX[2] /\ data.dXorB[1] = data.hB[1]

\* C20: a solve modifies only B.  A and the supplied invA are as the caller
\* left them after the call, and a second solve with the same A and invA
\* buffers and B loaded again gives the result of the first.
C20_SolveModifiesOnlyB ==
    (test = "testing_trsm_batched_ex" /\ data.calls >= 1)
    => /\ data.dA = data.hA
       /\ \A b \in Members(args) : data.invA[b] = testing_trsm_batched_ex_trtri(data.hA, b)
       /\ (data.calls = 2 /\ data.phase = "done")
          => /\ args.mode = "device"
             /\ data.dXorB = data.hXorB_1
             /\ data.dXorB # data.hB

C20_Witness ==
    /\ test = "testing_trsm_batched_ex" /\ data.calls = 2 /\ data.phase = "done"
    /\ args.batch_count = 2 /\ args.side = "right" /\ args.transA = "transpose"
    /\ data.dXorB = data.hXorB_1 /\ data.dA = data.hA
    /\ data.hA[1] # data.hA[2]

\* C21: repeatability.  Every run of the same solve, on every device with
\* its own handle and buffers, leaves the output of the first run; the
\* buffers of the first device are not touched by the runs.
C21_Repeatable ==
    (test = "testing_trsm" /\ data.phase = "repeat")
    => /\ data.dA = data.hA /\ data.dXorB = data.hXorB_1
       /\ data.dev >= 1 => data.dA_copy = data.hA
       /\ data.runs >= 1
          => /\ status = "success"
             /\ data.hXorB_copy = data.hXorB_1
             /\ data.dXorB_copy = data.dXorB
             /\ data.unit_check = "pass"

C21_Witness ==
    /\ test = "testing_trsm" /\ data.phase = "repeat"
    /\ data.dev = 2 /\ data.runs = 2 /\ data.alpha_h = -1
    /\ args.M = 2 /\ args.N = 2 /\ args.side = "left"
    /\ data.hXorB_copy = data.hXorB_1 /\ data.hXorB_copy # data.hB

\* C22: the operations of one stream run in issue order.  A solve in
\* device pointer mode reads the alpha that the copy issued before it wrote,
\* and the buffers of a stream are at every moment what the operations run
\* so far give when applied one after the other, each solve on the B the
\* one before left; the other streams have no part in them.
RECURSIVE InIssueOrder(_, _, _, _)
InIssueOrder(a, d, st, n) ==
    IF n = 0
    THEN st
    ELSE ApplyOp(a, d, InIssueOrder(a, d, st, n - 1),
                 testing_trsm_stream_script[n], d.alpha_h)

NotStarted(d) ==
    [pc |-> 0, queue |-> <<>>, dA |-> d.hA, dXorB |-> Empty, alpha_d |-> {},
     read |-> {}]

C22_StreamOrder ==
    (test = "testing_trsm" /\ data.phase = "stream")
    => \A s \in Streams :
         LET st  == data.streams[s]
             ran == st.pc - Len(st.queue)
             seq == InIssueOrder(args, data, NotStarted(data), ran)
         IN  /\ ran >= 0
             /\ st.queue = SubSeq(testing_trsm_stream_script, ran + 1, st.pc)
             /\ st.read \subseteq {data.alpha_h}
             /\ st.dXorB = seq.dXorB
             /\ st.alpha_d = seq.alpha_d
             /\ st.dA = data.hA

C22_Witness ==
    /\ test = "testing_trsm" /\ data.phase = "stream"
    /\ data.streams[1].pc = Len(testing_trsm_stream_script)
    /\ data.streams[1].queue = <<>>
    /\ data.streams[1].read = {data.alpha_h}
    /\ data.streams[2].pc = 3 /\ Len(data.streams[2].queue) = 2
    /\ data.streams[1].dXorB # data.hB
    /\ data.streams[2].dXorB = data.hB

\* C23: an exception thrown inside the implementation never leaves the C
\* entry point: the call returns the failure status that
\* exception_to_rocblas_status gives for it, so every call returns a status.
StatusValues ==
    {"success", "invalid_handle", "invalid_value", "invalid_size", "invalid_pointer",
     "size_unchanged", "size_increased", "memory_error", "internal_error",
     "check_numerics_fail"}

C23_ExceptionsCaught ==
    (data.phase = "exception")
    => /\ status \in StatusValues
       /\ data.thrown.kind # "none"
          => /\ status = exception_to_rocblas_status(data.thrown.kind)
             /\ status \in {"memory_error", "internal_error"}
             /\ Len(steps) = data.thrown.at

C23_Witness ==
    /\ data.phase = "exception" /\ data.thrown.kind = "bad_alloc"
    /\ status = "memory_error" /\ steps[Len(steps)] = "launcher"
    /\ args.check_numerics /\ args.logging

\* C24: the solve gives the same output with alpha passed by value in host
\* pointer mode and with alpha read from the device in device pointer mode:
\* for the same A and B the two results are equal, and both are the X the
\* test checks them against.
C24_PointerModesAgree ==
    (test = "testing_trsm_batched_ex" /\ data.phase = "done")
    => /\ args.mode = (IF data.calls = 1 THEN "host" ELSE "device")
       /\ data.dXorB = data.hX
       /\ data.calls = 2
          => /\ data.alpha_d = {data.alpha_h}
             /\ data.hXorB_1 = data.hX
             /\ data.hXorB_1 = data.dXorB

C24_Witness ==
    /\ test = "testing_trsm_batched_ex" /\ data.phase = "done" /\ data.calls = 2
    /\ args.mode = "device" /\ data.alpha_h = -1 /\ data.alpha_d = {-1}
    /\ args.batch_count = 2 /\ args.side = "left"
    /\ data.hXorB_1 = data.dXorB /\ data.dXorB # data.hB

\* C25: the block partition of the inverter.  The K / 128 full blocks and
\* the partial block of size K - 128 * (K / 128), inverted exactly when
\* K mod 128 # 0 or K < 128, cover every diagonal index 0 .. K-1 exactly
\* once; for K < 128 there is exactly one inversion, of size K; for K a
\* positive multiple of 128 there is no partial inversion.
DiagonalOf(blk) == { blk.i * TRSM_BLOCK + d : d \in 0 .. blk.n - 1 }

C25_BlockPartition ==
    (data.phase = "trtri")
    => LET K    == data.K
           full == { blk \in data.inversions : ~blk.partial }
           part == { blk \in data.inversions : blk.partial }
       IN  /\ Cardinality(full) = K \div TRSM_BLOCK
           /\ \A blk \in full : blk.n = TRSM_BLOCK
           /\ \A blk \in part : blk.n = K - TRSM_BLOCK * (K \div TRSM_BLOCK)
           /\ Cardinality(part) = IF K % TRSM_BLOCK # 0 \/ K < TRSM_BLOCK THEN 1 ELSE 0
           /\ \A d \in 0 .. K - 1 :
                Cardinality({ blk \in data.inversions : d \in DiagonalOf(blk) }) = 1
           /\ \A blk \in data.inversions : DiagonalOf(blk) \subseteq 0 .. K - 1
           /\ K < TRSM_BLOCK
              => \E blk \in data.inversions : data.inversions = {blk} /\ blk.n = K
           /\ (K > 0 /\ K % TRSM_BLOCK = 0) => part = {}

C25_Witness ==
    /\ data.phase = "trtri" /\ data.K = 2 * TRSM_BLOCK + 1
    /\ Cardinality(data.inversions) = 3
    /\ \E blk \in data.inversions : blk.partial /\ blk.n = 1 /\ blk.i = 2

\* C26: every inverse block fits in the TRSM_BLOCK * K elements of invA:
\* block i starts at i * TRSM_BLOCK * TRSM_BLOCK with leading dimension
\* TRSM_BLOCK, no two blocks overlap, and the last element written is below
\* TRSM_BLOCK * K; block i of A is read from i * (TRSM_BLOCK * lda +
\* TRSM_BLOCK) on, inside the lda * K elements of A.
Written(blk) ==
    { blk.invA_offset + r + c * TRSM_BLOCK : r \in {0, blk.n - 1}, c \in {0, blk.n - 1} }

C26_BlocksFit ==
    (data.phase = "trtri")
    => /\ \A blk \in data.inversions :
            /\ blk.invA_offset = blk.i * TRSM_BLOCK * TRSM_BLOCK
            /\ blk.A_offset = blk.i * (TRSM_BLOCK * data.lda + TRSM_BLOCK)
            /\ blk.n >= 1
               => /\ \A e \in Written(blk) : e >= 0 /\ e < data.size_invA
                  /\ blk.invA_offset + (blk.n - 1) * TRSM_BLOCK + blk.n - 1
                         < TRSM_BLOCK * data.K
                  /\ blk.A_offset + (blk.n - 1) * data.lda + blk.n - 1 < data.size_A
       /\ \A b1 \in data.inversions, b2 \in data.inversions :
            (b1.i < b2.i /\ b1.n >= 1)
            => b1.invA_offset + (b1.n - 1) * TRSM_BLOCK + b1.n - 1 < b2.invA_offset

C26_Witness ==
    /\ data.phase = "trtri" /\ data.K = 2 * TRSM_BLOCK /\ data.lda = data.K
    /\ \E blk \in data.inversions :
         /\ blk.i = 1
         /\ blk.invA_offset + (blk.n - 1) * TRSM_BLOCK + blk.n - 1 = data.size_invA - 1
         /\ blk.A_offset + (blk.n - 1) * data.lda + blk.n - 1 = data.size_A - 1

\* C27: in rocblas_hbmv_impl the launcher runs only after the argument
\* check returned continue and, with check_numerics, after the check of
\* the input numerics passed; the check of the output numerics runs only
\* after the launcher returned success.  When the argument check or the
\* input check fails the call returns that status and y is not written.
StepAt(name) == { i \in DOMAIN steps : steps[i] = name }

C27_LauncherOrder ==
    (Called /\ routine = "hbmv" /\ args.handle = "valid" /\ ~args.query)
    => LET arg_status == rocblas_hbmv_arg_check(args)
       IN  /\ StepAt("arg_check") # {}
           /\ arg_status # "continue"
              => status = arg_status /\ written = {} /\ StepAt("launcher") = {}
           /\ \A i \in StepAt("launcher") :
                /\ arg_status = "continue"
                /\ steps[i - 1] = IF args.check_numerics THEN "check_numerics_in"
                                  ELSE "arg_check"
           /\ \A i \in StepAt("check_numerics_in") :
                /\ args.check_numerics /\ steps[i - 1] = "arg_check"
                /\ i = Len(steps) => status = "check_numerics_fail" /\ written = {}
           /\ \A i \in StepAt("check_numerics_out") :
                /\ args.check_numerics /\ steps[i - 1] = "launcher"
                /\ status \in {"success", "check_numerics_fail"}
           /\ status = "internal_error"
              => steps[Len(steps)] = "launcher" /\ written = {}
           /\ written # {} => StepAt("launcher") # {}

C27_Witness ==
    /\ routine = "hbmv" /\ args.check_numerics /\ args.logging
    /\ status = "check_numerics_fail"
    /\ steps = <<"log", "arg_check", "check_numerics_in">>
    /\ written = {}

\* C28: rocblas_hbmv_impl with a non-null handle in a size query returns,
\* reporting zero bytes, before logging, the argument check, the numerics
\* checks and the launcher, whatever the other arguments are, those the
\* argument check rejects included; only the null handle check comes first.
C28_SizeQueryFirst ==
    (Called /\ routine = "hbmv")
    => /\ (args.handle = "valid" /\ args.query)
          => /\ status = "size_unchanged"
             /\ steps = <<"size_query">>
             /\ written = {}
       /\ args.handle = "null" => status = "invalid_handle" /\ steps = <<>>
       /\ StepAt("size_query") # {} => args.handle = "valid" /\ args.query

C28_Witness ==
    /\ routine = "hbmv" /\ args.handle = "valid" /\ args.query
    /\ args.logging /\ args.check_numerics
    /\ rocblas_hbmv_arg_check(args) = "invalid_size"
    /\ args.y = "null"
    /\ status = "size_unchanged" /\ steps = <<"size_query">>

\* The calls of one pass of testing_spmv_bad_arg that expect success.
SpmvQuickReturns(pointer_mode) ==
    { c \in { testing_spmv_bad_arg_calls(pointer_mode)[i] :
                i \in DOMAIN testing_spmv_bad_arg_calls(pointer_mode) } :
        c.x = "success" }

\* testing_spmv_bad_arg asserts its three quick returns in the pass of either
\* pointer mode.
SpmvQuickReturnsInBothModes ==
    \A pm \in PointerModes :
          /\ \E c \in SpmvQuickReturns(pm) :
                /\ c.a.mode = pm /\ c.a.N = 0
                /\ {c.a.alpha, c.a.beta, c.a.A, c.a.x, c.a.y} = {"null"}
          /\ \E c \in SpmvQuickReturns(pm) :
                /\ c.a.mode = pm /\ c.a.N > 0 /\ c.a.alpha_val = 0
                /\ c.a.beta_val # 1
                /\ c.a.A = "null" /\ c.a.x = "null" /\ c.a.y = "ptr"
          /\ \E c \in SpmvQuickReturns(pm) :
                /\ c.a.mode = pm /\ c.a.N > 0 /\ c.a.alpha_val = 0
                /\ c.a.beta_val = 1
                /\ {c.a.A, c.a.x, c.a.y} = {"null"}

\* C29: spmv with a valid handle and a legal uplo, the checks taken in their
\* order: N < 0, incx = 0 or incy = 0 returns invalid_size whatever the
\* pointers are, all null included; past the sizes, N = 0 returns success
\* with all pointers null; with N > 0 a null alpha or beta returns
\* invalid_pointer; past these, alpha = 0 returns success with A and x null,
\* alpha = 0 and beta = 1 returns success with A, x and y null, and in host
\* pointer mode with alpha # 0 a null A, x or y returns invalid_pointer.  The
\* tests assert what spmv returns, and testing_spmv_bad_arg asserts the three
\* quick returns in its host pass and in its device pass.
C29_Spmv ==
    /\ (/\ Called /\ routine = "spmv"
        /\ ValidHandle /\ legal_fill(args.uplo))
       => /\ (args.N < 0 \/ args.incx = 0 \/ args.incy = 0)
             => status = "invalid_size" /\ Asserted("invalid_size")
          /\ (args.N >= 0 /\ args.incx # 0 /\ args.incy # 0)
             => /\ args.N = 0 => status = "success" /\ Asserted("success")
                /\ (args.N > 0 /\ (args.alpha = "null" \/ args.beta = "null"))
                   => status = "invalid_pointer" /\ Asserted("invalid_pointer")
                /\ (args.N > 0 /\ args.alpha = "ptr" /\ args.beta = "ptr")
                   => /\ (args.alpha_val = 0 /\ args.y = "ptr")
                         => status = "success" /\ Asserted("success")
                      /\ (args.alpha_val = 0 /\ args.beta_val = 1)
                         => status = "success" /\ Asserted("success")
                      /\ (/\ args.mode = "host" /\ args.alpha_val # 0
                          /\ "null" \in {args.A, args.x, args.y})
                         => /\ status = "invalid_pointer"
                            /\ Asserted("invalid_pointer")
    /\ SpmvQuickReturnsInBothModes

C29_Witness ==
    /\ Called /\ test = "testing_spmv_bad_arg" /\ routine = "spmv"
    /\ args.mode = "device" /\ args.N > 0
    /\ args.alpha_val = 0 /\ args.beta_val = 1
    /\ {args.A, args.x, args.y} = {"null"}
    /\ status = "success" /\ expected = "success"

\* The test failed: one of its checks did not pass.
TestFailed == \E c \in data.checks : ~c.pass

\* The forward error and the residual of a computed X of member b.
CheckArgs ==
    IF routine = "tpsv_strided_batched"
    THEN [args EXCEPT !.side = "left", !.M = args.N, !.N = 1, !.alpha_val = 1]
    ELSE args

ForwardError(X, b) == matrix_norm_1(CheckArgs.M, CheckArgs.N, data.hX[b], X)

Residual(X, b) ==
    matrix_norm_1(CheckArgs.M, CheckArgs.N,
                  ref_trmm(CheckArgs, CHOOSE r \in Reciprocal(CheckArgs.alpha_val) : TRUE,
                           data.hA[b], X),
                  data.hB[b])

\* The device-pointer-mode result of member b is wrong: its forward error
\* or its residual is out of tolerance.
WrongDeviceResult(b) ==
    \/ ~trsm_err_res_check(ForwardError(data.X_2[b], b), CheckArgs.M, ERROR_EPS_MULTIPLIER)
    \/ ~trsm_err_res_check(Residual(data.X_2[b], b), CheckArgs.M, RESIDUAL_EPS_MULTIPLIER)

\* C30: in testing_tpsv_strided_batched and testing_trsm_batched_ex, once
\* the checks are over, the forward error against the exact X and the
\* residual against B of the host-pointer-mode output and of the
\* device-pointer-mode output were checked for every batch member, and a
\* wrong device-pointer-mode result in any member has failed the test.
C30_AsStated ==
    (/\ test \in {"testing_tpsv_strided_batched", "testing_trsm_batched_ex"}
     /\ data.phase = "checked")
    => /\ \A b \in Members(args), of \in {1, 2}, kind \in {"forward", "residual"} :
             \E c \in data.checks : c.b = b /\ c.of = of /\ c.kind = kind
       /\ (\E b \in Members(args) : WrongDeviceResult(b)) => TestFailed

\* Every status a test asserts is the status returned.
TestsPass == expected # "none" => status = expected

====
